---- MODULE Spec2Model ----
(***************************************************************************)
(* Order Lifecycle Engine of elevator-pitch.api.                           *)
(*                                                                         *)
(* The state is the content of the Order, Listing and User collections and *)
(* the position of every request handler that is running.  A handler is a *)
(* chain of steps, one per storage round trip (every `await` on a query or *)
(* a save): the code between two awaits runs without interruption on the   *)
(* Node event loop, the round trips of different requests interleave.      *)
(* A save of a loaded document writes the paths the handler modified       *)
(* ($set) and appends the pushed array elements ($push) in one storage     *)
(* update.                                                                 *)
(***************************************************************************)
EXTENDS Integers, Sequences, FiniteSets, TLC

----------------------------------------------------------------------------
(* Bounds of the model *)

MaxOrders == 1
MaxTimeline == 5
NumProcs == 2
\* the timeline length at which interleaved handlers stop
MaxTimelineConc == 3
\* the completed orders the rating specifications start from
MaxRated == 2
\* chats, messages per chat and read operations of the chat specifications
MaxOrdersMany == 2
MaxConns == 2
MaxChats == 1
MaxChatsConc == 2
MaxMessages == 2
MaxReads == 2
\* length of the lastMessage preview (100 characters in the code)
PreviewLen == 2

----------------------------------------------------------------------------
(* Identifiers and input alphabets *)

Users == {"alice", "bob", "carol"}
NoUser == "nobody"
role == [u \in Users |-> IF u = "carol" THEN "admin" ELSE "student"]

ListingIds == {"L1"}
MissingListing == "L0"
OrderIds == 1 .. MaxOrders
ManyOrderIds == 1 .. MaxOrdersMany
Procs == 1 .. NumProcs

NoStatus == "none"
Statuses == {"pending", "confirmed", "meetup-scheduled", "in-progress",
             "completed", "cancelled", "disputed"}

FinalPrices == {-1, 40}
NoteInputs == {"ok"}
Reasons == {"", "changed mind"}
NotesInputs == {"", "bring cash"}
Meetups == {"library"}
NoMeetup == "unset"
Scores == {2, 5}

----------------------------------------------------------------------------
(* Order documents *)

NoCancellation == [cancelledBy |-> NoUser, reason |-> ""]
NoDispute == [initiatedBy |-> NoUser, reason |-> "", status |-> NoStatus]

\* validTransitions with the table's check skipped for completed orders
validTransitions_reopen ==
  [s \in Statuses |->
     CASE s = "pending" -> {"confirmed", "cancelled"}
       [] s = "confirmed" -> {"meetup-scheduled", "cancelled"}
       [] s = "meetup-scheduled" -> {"in-progress", "cancelled"}
       [] s = "in-progress" -> {"completed", "disputed"}
       [] s = "completed" -> {"completed"}
       [] s = "cancelled" -> {}
       [] s = "disputed" -> {"completed", "cancelled"}]

\* validTransitions of updateOrderStatus
validTransitions ==
  [s \in Statuses |->
     CASE s = "pending" -> {"confirmed", "cancelled"}
       [] s = "confirmed" -> {"meetup-scheduled", "cancelled"}
       [] s = "meetup-scheduled" -> {"in-progress", "cancelled"}
       [] s = "in-progress" -> {"completed", "disputed"}
       [] s = "completed" -> {}
       [] s = "cancelled" -> {}
       [] s = "disputed" -> {"completed", "cancelled"}]

\* canBeRated that lets an order of any status be rated
canBeRated_anyStatus(order) == order.status \in Statuses

canBeRated(order) == order.status = "completed"

\* canBeCancelled that also lets an order in progress be cancelled
canBeCancelled_inProgress(order) ==
  order.status \in {"pending", "confirmed", "meetup-scheduled", "in-progress"}

canBeCancelled(order) ==
  order.status \in {"pending", "confirmed", "meetup-scheduled"}

\* orderNumber of a document that was given none
NoOrderNumber == 0

\* Order.create with the seller taken from the request instead of the listing
NewOrder_sellerIsCaller(buyer, listingId, listing, finalPrice) ==
  [orderNumber |-> NoOrderNumber,
   buyer |-> buyer,
   seller |-> buyer,
   listing |-> listingId,
   listingSnapshot |-> listing.title,
   price |-> listing.price,
   finalPrice |-> finalPrice,
   status |-> "pending",
   meetupDetails |-> NoMeetup,
   timeline |-> << [status |-> "pending", note |-> <<"Order created">>] >>,
   buyerRating |-> 0,
   sellerRating |-> 0,
   cancellation |-> NoCancellation,
   dispute |-> NoDispute,
   notesBuyer |-> "",
   notesSeller |-> ""]

\* The document Order.create builds from the handler's arguments: no order
\* number is passed, status takes the schema default.
NewOrder(buyer, listingId, listing, finalPrice) ==
  [orderNumber |-> NoOrderNumber,
   buyer |-> buyer,
   seller |-> listing.seller,
   listing |-> listingId,
   listingSnapshot |-> listing.title,
   price |-> listing.price,
   finalPrice |-> finalPrice,
   status |-> "pending",
   meetupDetails |-> NoMeetup,
   timeline |-> << [status |-> "pending", note |-> <<"Order created">>] >>,
   buyerRating |-> 0,
   sellerRating |-> 0,
   cancellation |-> NoCancellation,
   dispute |-> NoDispute,
   notesBuyer |-> "",
   notesSeller |-> ""]

\* orderNumber is required: the document passes validation only with one
validate(doc) == doc.orderNumber # NoOrderNumber

\* pre('save'): a document without an order number gets a fresh one
preSave(doc, id) ==
  IF doc.orderNumber = NoOrderNumber THEN [doc EXCEPT !.orderNumber = id] ELSE doc

\* updateStatus overwriting the last timeline entry instead of pushing one
updateStatus_overwrite(order, newStatus, note) ==
  [order EXCEPT !.status = newStatus,
                !.timeline[Len(order.timeline)] = [status |-> newStatus, note |-> <<note>>]]

\* orderSchema.methods.updateStatus, as the update its save() sends
updateStatus(order, newStatus, note) ==
  [order EXCEPT !.status = newStatus,
                !.timeline = Append(@, [status |-> newStatus, note |-> <<note>>])]

\* cancel setting the status without a timeline entry
cancel_noEntry(order, userId, reason) ==
  [order EXCEPT !.status = "cancelled",
                !.cancellation = [cancelledBy |-> userId, reason |-> reason]]

\* orderSchema.methods.cancel
cancel(order, userId, reason) ==
  [order EXCEPT !.status = "cancelled",
                !.cancellation = [cancelledBy |-> userId, reason |-> reason],
                !.timeline = Append(@, [status |-> "cancelled",
                                        note |-> <<"Cancelled by user. Reason: ", reason>>])]

\* initiateDispute recording the dispute without its open status
initiateDisputeDoc_notOpen(order, userId, reason) ==
  [order EXCEPT !.status = "disputed",
                !.dispute = [initiatedBy |-> userId, reason |-> reason, status |-> NoStatus],
                !.timeline = Append(@, [status |-> "disputed",
                                        note |-> <<"Dispute initiated: ", reason>>])]

\* orderSchema.methods.initiateDispute
initiateDisputeDoc(order, userId, reason) ==
  [order EXCEPT !.status = "disputed",
                !.dispute = [initiatedBy |-> userId, reason |-> reason, status |-> "open"],
                !.timeline = Append(@, [status |-> "disputed",
                                        note |-> <<"Dispute initiated: ", reason>>])]

\* the slot assignment of orderSchema.methods.addRating
setRating(order, userId, score) ==
  IF order.buyer = userId
    THEN [order EXCEPT !.buyerRating = score]
    ELSE [order EXCEPT !.sellerRating = score]

----------------------------------------------------------------------------
(* Chat documents *)

ChatIds == 1 .. MaxChats

\* message contents as strings of characters, image payloads, offer amounts
Contents == {<<"h", "i">>, <<"d", "e", "a", "l">>}
NoContent == <<>>
MessageTypes == {"text", "image", "offer"}
NoImage == "no-image"
Images == {NoImage, "photo"}
NoAmount == -1
Amounts == {NoAmount, 35}
OfferResponses == {"accepted", "rejected", "withdrawn"}

\* the message bodies of the requests: content, type, image, offer amount
MessageBodies ==
  {[content |-> <<"d", "e", "a", "l">>, type |-> "text", image |-> NoImage, amount |-> NoAmount],
   [content |-> <<"h", "i">>, type |-> "image", image |-> "photo", amount |-> NoAmount],
   [content |-> <<"h", "i">>, type |-> "image", image |-> NoImage, amount |-> NoAmount],
   [content |-> <<"h", "i">>, type |-> "offer", image |-> NoImage, amount |-> 35],
   [content |-> <<"h", "i">>, type |-> "offer", image |-> NoImage, amount |-> NoAmount],
   [content |-> NoContent, type |-> "text", image |-> NoImage, amount |-> NoAmount]}

\* the bodies sent in the specification of all chat handlers: a text, an offer
\* and a message without content
PlainBodies == {b \in MessageBodies : b.image = NoImage /\ (b.type = "offer" <=> b.amount # NoAmount)
                                       /\ b.type # "image"}

\* a Date path that was never set
NoTime == 0

NoLastMessage == [content |-> NoContent, sender |-> NoUser, createdAt |-> NoTime]

\* Map.get(key) || 0 and Map.set(key, value) on unreadCount
unreadGet(unreadCount, u) == IF u \in DOMAIN unreadCount THEN unreadCount[u] ELSE 0

\* Map.set that keeps the value of a key the map already holds
unreadSet_keep(unreadCount, u, n) ==
  [v \in DOMAIN unreadCount \cup {u} |-> IF v \in DOMAIN unreadCount THEN unreadCount[v] ELSE n]

unreadSet(unreadCount, u, n) ==
  [v \in DOMAIN unreadCount \cup {u} |-> IF v = u THEN n ELSE unreadCount[v]]

\* the document Chat.findOrCreate creates (isActive, messages and blockedBy
\* take the schema defaults)
NewChat(buyerId, sellerId, listingId) ==
  [participants |-> <<buyerId, sellerId>>,
   listing |-> listingId,
   messages |-> <<>>,
   lastMessage |-> NoLastMessage,
   unreadCount |-> [u \in {buyerId, sellerId} |-> 0],
   isActive |-> TRUE,
   blockedBy |-> <<>>]

\* a pre('save') hook that accepts any number of participants
chatPreSave_anyNumber(participants) == Len(participants) >= 0

\* chatSchema.pre('save'): the save goes on only with exactly 2 participants
chatPreSave(participants) == Len(participants) = 2

\* chatSchema.methods.isParticipant, isBlockedBy
isParticipant(chat, userId) == \E i \in 1 .. Len(chat.participants) : chat.participants[i] = userId
isBlockedBy(chat, userId) == \E i \in 1 .. Len(chat.blockedBy) : chat.blockedBy[i] = userId

\* chat.participants.find((p) => p !== userId); NoUser when there is none
otherParticipant(chat, userId) ==
  LET idx == {i \in 1 .. Len(chat.participants) : chat.participants[i] # userId}
  IN  IF idx = {} THEN NoUser
      ELSE chat.participants[CHOOSE i \in idx : \A j \in idx : i <= j]

\* message.content.substring(0, PreviewLen)
Preview(content) ==
  SubSeq(content, 1, IF Len(content) < PreviewLen THEN Len(content) ELSE PreviewLen)

\* the message object sendMessage builds, with the schema defaults of a
\* stored message (offer.status pending, isRead false, no readAt); the
\* object itself carries no createdAt
NewMessage(sender, content, type, image, amount) ==
  [sender |-> sender,
   content |-> content,
   type |-> type,
   image |-> IF type = "image" /\ image # NoImage THEN image ELSE NoImage,
   amount |-> IF type = "offer" /\ amount # NoAmount THEN amount ELSE NoAmount,
   offerStatus |-> "pending",
   isRead |-> FALSE,
   readAt |-> NoTime,
   createdAt |-> NoTime]

\* timestamps: true of messageSchema: the subdocument that save() stores gets
\* its createdAt at the save
Stored(message, t) == [message EXCEPT !.createdAt = t]

\* chatSchema.methods.updateLastMessage: the preview of the message object
\* it is given
updateLastMessage(chat, message) ==
  [chat EXCEPT !.lastMessage = [content |-> Preview(message.content),
                                sender |-> message.sender,
                                createdAt |-> message.createdAt]]

\* a chat request slot that serves no request
IdleChat ==
  [pc |-> "idle", op |-> "none", user |-> NoUser, cid |-> 0, lid |-> MissingListing,
   sellerId |-> NoUser, content |-> NoContent, type |-> "text", image |-> NoImage,
   amount |-> NoAmount, mid |-> 0, status |-> NoStatus, doc |-> <<>>,
   stale |-> FALSE, result |-> "none", events |-> <<>>]

----------------------------------------------------------------------------
(* State *)

VARIABLES
  listings,    \* Listing collection: listing id -> document
  orders,      \* Order collection in insertion order; an order's id is its index
  userOrders,  \* User.orders of every user
  profile,     \* User.rating of every user
  req,         \* the request each handler slot is serving, with its position
  changes,     \* per order: number of committed writes that set its status
  before,      \* the collections as they were when the request in service arrived
  hookOrder,   \* whether save() validates before or after the schema's pre('save') hook
  chats,       \* Chat collection in insertion order; a chat's id is its index
  creq,        \* the chat request each handler slot is serving, with its position
  clock,       \* the clock that stamps readAt: it ticks when a read stamps a message
  sockets      \* the socket.io connections: their rooms and the events they received

vars == <<listings, orders, userOrders, profile, req, changes, before, hookOrder,
          chats, creq, clock, sockets>>

\* save() runs the validation of the required paths and the schema's
\* pre('save') hook; which of the two comes first is the library's choice
HookOrders == {"validate-first", "hook-first"}

\* a listing as its seller created it (status takes the schema default)
InitListings ==
  [l \in ListingIds |->
     [seller |-> "alice", status |-> "active", price |-> 45, title |-> l]]

\* the listings when the first order request arrives: on sale, or already
\* marked as sold by their seller
StartListings ==
  {[l \in ListingIds |-> [InitListings[l] EXCEPT !.status = st[l]]] :
     st \in [ListingIds -> {"active", "sold"}]}

NoRating == [average |-> <<0, 1>>, count |-> 0]

Snapshot ==
  [orders |-> orders, listings |-> listings, profile |-> profile, chats |-> chats]

\* a request body for a listing with none of its fields present
NoBody == [title |-> "", price |-> -1, status |-> NoStatus, seller |-> NoUser]

\* the socket.io connections
Conns == 1 .. MaxConns

\* a connection that is not open. client is the user at the other end of an
\* open connection: the server neither asks for it nor stores it
NoSocket == [open |-> FALSE, client |-> NoUser, rooms |-> {}, received |-> {}]

Idle ==
  [pc |-> "idle", op |-> "none", body |-> NoBody, user |-> NoUser, oid |-> 0,
   lid |-> MissingListing, target |-> NoStatus, note |-> "", reason |-> "",
   price |-> 0, score |-> 0, notes |-> "", meetup |-> NoMeetup,
   doc |-> <<>>, found |-> <<0, 0>>, result |-> "none", events |-> <<>>]

Init ==
  /\ listings \in StartListings
  /\ orders = <<>>
  /\ userOrders = [u \in Users |-> <<>>]
  /\ profile = [u \in Users |-> NoRating]
  /\ req = [p \in Procs |-> Idle]
  /\ changes = [o \in OrderIds \cup ManyOrderIds |-> 0]
  /\ chats = <<>>
  /\ creq = [p \in Procs |-> IdleChat]
  /\ clock = 1
  /\ before = Snapshot
  /\ hookOrder \in HookOrders
  /\ sockets = [c \in Conns |-> NoSocket]

\* Order.findById
findById(id) == IF id \in 1 .. Len(orders) THEN <<orders[id]>> ELSE <<>>

\* what a handler reads of its loaded order once its checks have passed
Loaded(order) ==
  <<[buyer |-> order.buyer, seller |-> order.seller, listing |-> order.listing]>>

\* a handler slot is free when it serves no request
Free(p) == req[p].pc = "idle"

\* next(new AppError(...)): the request ends with an error response
Fail(r, kind) == [r EXCEPT !.pc = "done", !.result = kind]

\* an emit addressed to the caller of the request
emit_toCaller(r, recipient, name) ==
  [r EXCEPT !.events = Append(@, [to |-> r.user, name |-> name, order |-> r.oid])]

\* io.to(room).emit(name, payload) reaches every connection that has joined
\* the room
deliver(event) ==
  [c \in Conns |->
     IF event.to \in sockets[c].rooms
       THEN [sockets[c] EXCEPT !.received = @ \cup {[to |-> event.to, name |-> event.name]}]
       ELSE sockets[c]]

\* io.to(recipient).emit(name, payload)
emit(r, recipient, name) ==
  [r EXCEPT !.events = Append(@, [to |-> recipient, name |-> name, order |-> r.oid])]

\* the request a handler slot starts to serve
Request(op, user, oid) == [Idle EXCEPT !.op = op, !.user = user, !.oid = oid]

Db == <<listings, orders, userOrders, profile, changes>>

\* writes of a status (with its timeline entry) that handlers have prepared
\* for order o and not yet sent
StatusWrites(o) ==
  Cardinality({q \in Procs : req[q].pc = "save" /\ req[q].oid = o
                              /\ req[q].target # NoStatus})

\* Order.create calls that have not inserted their document yet
Inserts == Cardinality({q \in Procs : req[q].pc = "insert"})

\* the model stops growing a timeline at max entries and the collection at
\* MaxOrders orders
Room(o, max) == Len(orders[o].timeline) + StatusWrites(o) < max
RoomForOrders(max) == Len(orders) + Inserts < max
RoomForOrder == RoomForOrders(MaxOrders)

----------------------------------------------------------------------------
(* Handlers: the checks, in the order each handler makes them *)

\* createOrder without the check of the listing's status
createOrderError_anyStatus(u, l, finalPrice) ==
  IF l \notin DOMAIN listings THEN "NotFound"
  ELSE IF listings[l].seller = u THEN "OwnListing"
  ELSE IF finalPrice < 0 THEN "InvalidPrice"
  ELSE "none"

createOrderError(u, l, finalPrice) ==
  IF l \notin DOMAIN listings THEN "NotFound"
  ELSE IF listings[l].status # "active" THEN "NotAvailable"
  ELSE IF listings[l].seller = u THEN "OwnListing"
  ELSE IF finalPrice < 0 THEN "InvalidPrice"
  ELSE "none"

updateOrderStatusError(u, o, status) ==
  IF findById(o) = <<>> THEN "NotFound"
  ELSE LET order == findById(o)[1]
           isBuyer == order.buyer = u
           isSeller == order.seller = u
       IN  IF ~isBuyer /\ ~isSeller /\ role[u] # "admin" THEN "Forbidden"
           ELSE IF status \notin validTransitions[order.status] THEN "InvalidTransition"
           ELSE "none"

updateMeetupDetailsError(u, o) ==
  IF findById(o) = <<>> THEN "NotFound"
  ELSE LET order == findById(o)[1]
       IN  IF order.buyer # u /\ order.seller # u THEN "Forbidden" ELSE "none"

addRatingError(u, o) ==
  IF findById(o) = <<>> THEN "NotFound"
  ELSE LET order == findById(o)[1]
           isBuyer == order.buyer = u
           isSeller == order.seller = u
           existingRating == IF isBuyer THEN order.buyerRating ELSE order.sellerRating
       IN  IF ~canBeRated(order) THEN "NotCompleted"
           ELSE IF ~isBuyer /\ ~isSeller THEN "Forbidden"
           ELSE IF existingRating # 0 THEN "AlreadyRated"
           ELSE "none"

\* cancelOrder without the check that the caller is a party of the order
cancelOrderError_anyCaller(u, o, reason) ==
  IF reason = "" THEN "ReasonRequired"
  ELSE IF findById(o) = <<>> THEN "NotFound"
  ELSE IF ~canBeCancelled(findById(o)[1]) THEN "NotCancellable"
  ELSE "none"

cancelOrderError(u, o, reason) ==
  IF reason = "" THEN "ReasonRequired"
  ELSE IF findById(o) = <<>> THEN "NotFound"
  ELSE LET order == findById(o)[1]
       IN  IF order.buyer # u /\ order.seller # u THEN "Forbidden"
           ELSE IF ~canBeCancelled(order) THEN "NotCancellable"
           ELSE "none"

initiateDisputeError(u, o, reason) ==
  IF reason = "" THEN "ReasonRequired"
  ELSE IF findById(o) = <<>> THEN "NotFound"
  ELSE LET order == findById(o)[1]
       IN  IF order.buyer # u /\ order.seller # u THEN "Forbidden"
           ELSE IF order.status = "disputed" THEN "AlreadyDisputed"
           ELSE "none"

addNotesError(u, o, notes) ==
  IF notes = "" THEN "NotesRequired"
  ELSE IF findById(o) = <<>> THEN "NotFound"
  ELSE LET order == findById(o)[1]
       IN  IF order.buyer # u /\ order.seller # u THEN "Forbidden" ELSE "none"

----------------------------------------------------------------------------
(* Handlers: from the request to the first write (or the error response) *)

\* a handler serves request r on its loaded order: it answers with the error
\* of its checks or goes on to save the order
Serve(p, r, error) ==
  /\ Free(p)
  /\ IF error # "none"
       THEN req' = [req EXCEPT ![p] = Fail(r, error)]
       ELSE /\ r.target # NoStatus => Room(r.oid, MaxTimeline)
            /\ req' = [req EXCEPT ![p] =
                         [r EXCEPT !.pc = "save", !.doc = Loaded(orders[r.oid])]]
  /\ UNCHANGED <<Db, before, hookOrder, sockets, chats, creq, clock>>

\* createOrder while the collection, with the orders being created, holds
\* fewer than max orders
createOrderWithin(p, u, l, finalPrice, max) ==
  /\ Free(p)
  /\ LET r == [Request("createOrder", u, 0) EXCEPT !.lid = l, !.price = finalPrice]
         error == createOrderError(u, l, finalPrice)
     IN  IF error # "none"
           THEN req' = [req EXCEPT ![p] = Fail(r, error)]
           ELSE /\ RoomForOrders(max)
                /\ req' = [req EXCEPT ![p] = [r EXCEPT !.pc = "insert"]]
  /\ UNCHANGED <<Db, before, hookOrder, sockets, chats, creq, clock>>

createOrder(p, u, l, finalPrice) == createOrderWithin(p, u, l, finalPrice, MaxOrders)

updateOrderStatus(p, u, o, status, note) ==
  Serve(p, [Request("updateOrderStatus", u, o) EXCEPT !.target = status, !.note = note],
        updateOrderStatusError(u, o, status))

\* order.updateStatus('meetup-scheduled', ...) if the order is confirmed,
\* order.save() otherwise
updateMeetupDetails(p, u, o, meetup) ==
  LET error == updateMeetupDetailsError(u, o)
      confirmed == error = "none" /\ orders[o].status = "confirmed"
  IN  Serve(p, [Request("updateMeetupDetails", u, o) EXCEPT
                   !.meetup = meetup,
                   !.target = IF confirmed THEN "meetup-scheduled" ELSE NoStatus,
                   !.note = IF confirmed THEN "Meetup details added" ELSE ""],
            error)

addRating(p, u, o, score) ==
  Serve(p, [Request("addRating", u, o) EXCEPT !.score = score], addRatingError(u, o))

cancelOrder(p, u, o, reason) ==
  Serve(p, [Request("cancelOrder", u, o) EXCEPT
               !.reason = reason,
               !.target = IF cancelOrderError(u, o, reason) = "none"
                            THEN "cancelled" ELSE NoStatus],
        cancelOrderError(u, o, reason))

initiateDispute(p, u, o, reason) ==
  Serve(p, [Request("initiateDispute", u, o) EXCEPT
               !.reason = reason,
               !.target = IF initiateDisputeError(u, o, reason) = "none"
                            THEN "disputed" ELSE NoStatus],
        initiateDisputeError(u, o, reason))

addNotes(p, u, o, notes) ==
  Serve(p, [Request("addNotes", u, o) EXCEPT !.notes = notes], addNotesError(u, o, notes))

----------------------------------------------------------------------------
(* Handlers: the storage writes and the response *)

\* Order.create: save() of the new document, which validates it and runs the
\* pre('save') hook in the library's order; a document that fails validation
\* is not inserted and the handler answers with the error
insertOrder(p) ==
  /\ req[p].pc = "insert"
  /\ LET r == req[p]
         id == Len(orders) + 1
         doc == NewOrder(r.user, r.lid, listings[r.lid], r.price)
         stored == preSave(doc, id)
         valid == IF hookOrder = "validate-first" THEN validate(doc) ELSE validate(stored)
     IN  IF valid
           THEN /\ orders' = Append(orders, stored)
                /\ req' = [req EXCEPT ![p] = [r EXCEPT !.pc = "reserve", !.oid = id,
                                                       !.doc = Loaded(stored)]]
           ELSE /\ req' = [req EXCEPT ![p] = Fail(r, "ValidationError")]
                /\ UNCHANGED orders
  /\ UNCHANGED <<listings, userOrders, profile, changes, before, hookOrder, sockets, chats, creq, clock>>

\* createOrder: listing.status = 'reserved'; listing.save()
reserveListing(p) ==
  /\ req[p].pc = "reserve"
  /\ listings' = [listings EXCEPT ![req[p].lid].status = "reserved"]
  /\ req' = [req EXCEPT ![p].pc = "pushBuyer"]
  /\ UNCHANGED <<orders, userOrders, profile, changes, before, hookOrder, sockets, chats, creq, clock>>

\* createOrder: User.findByIdAndUpdate(buyer, {$push: {orders}})
pushBuyerOrder(p) ==
  /\ req[p].pc = "pushBuyer"
  /\ userOrders' = [userOrders EXCEPT ![req[p].user] = Append(@, req[p].oid)]
  /\ req' = [req EXCEPT ![p].pc = "pushSeller"]
  /\ UNCHANGED <<listings, orders, profile, changes, before, hookOrder, sockets, chats, creq, clock>>

\* createOrder: User.findByIdAndUpdate(seller, {$push: {orders}})
pushSellerOrder(p) ==
  /\ req[p].pc = "pushSeller"
  /\ userOrders' = [userOrders EXCEPT ![req[p].doc[1].seller] = Append(@, req[p].oid)]
  /\ req' = [req EXCEPT ![p].pc = "respond"]
  /\ UNCHANGED <<listings, orders, profile, changes, before, hookOrder, sockets, chats, creq, clock>>

\* what the save() of the handler's document changes in the stored one
Saved(r, stored) ==
  CASE r.op = "updateOrderStatus" -> updateStatus(stored, r.target, r.note)
    [] r.op = "updateMeetupDetails" ->
         IF r.target # NoStatus
           THEN updateStatus([stored EXCEPT !.meetupDetails = r.meetup], r.target, r.note)
           ELSE [stored EXCEPT !.meetupDetails = r.meetup]
    [] r.op = "cancelOrder" -> cancel(stored, r.user, r.reason)
    [] r.op = "initiateDispute" -> initiateDisputeDoc(stored, r.user, r.reason)
    [] r.op = "addRating" -> setRating(stored, r.user, r.score)
    [] r.op = "addNotes" ->
         IF stored.buyer = r.user THEN [stored EXCEPT !.notesBuyer = r.notes]
                                  ELSE [stored EXCEPT !.notesSeller = r.notes]

\* the step a handler takes after its order is saved
AfterSave(r) ==
  CASE r.op = "updateOrderStatus" ->
         IF r.target \in {"completed", "cancelled"} THEN "listing" ELSE "respond"
    [] r.op = "cancelOrder" -> "listing"
    [] r.op = "addRating" -> "find"
    [] OTHER -> "respond"

\* order.save() of an order loaded by findById
saveOrder(p) ==
  /\ req[p].pc = "save"
  /\ LET r == req[p] IN
       /\ orders' = [orders EXCEPT ![r.oid] = Saved(r, @)]
       /\ changes' = [changes EXCEPT ![r.oid] = IF r.target # NoStatus THEN @ + 1 ELSE @]
       /\ req' = [req EXCEPT ![p].pc = AfterSave(r)]
  /\ UNCHANGED <<listings, userOrders, profile, before, hookOrder, sockets, chats, creq, clock>>

\* the listing put back on sale also when its order completes
ListingStatusFor_alwaysActive(r) == "active"

\* the listing status an order's new status asks for
ListingStatusFor(r) ==
  IF r.op = "updateOrderStatus" /\ r.target = "completed" THEN "sold" ELSE "active"

\* Listing.findByIdAndUpdate(order.listing, {status})
updateListing(p) ==
  /\ req[p].pc = "listing"
  /\ LET r == req[p]
         l == r.doc[1].listing
     IN  listings' = IF l \in DOMAIN listings
                       THEN [listings EXCEPT ![l].status = ListingStatusFor(r)]
                       ELSE listings
  /\ req' = [req EXCEPT ![p].pc = "respond"]
  /\ UNCHANGED <<orders, userOrders, profile, changes, before, hookOrder, sockets, chats, creq, clock>>

RECURSIVE SumScores(_, _)
SumScores(seq, isBuyer) ==
  IF seq = <<>> THEN 0
  ELSE (IF isBuyer THEN Head(seq).buyerRating ELSE Head(seq).sellerRating)
       + SumScores(Tail(seq), isBuyer)

\* addRating: the orders the query for the rated user returns
RatedOrders(targetUser, isBuyer) ==
  SelectSeq(orders,
            LAMBDA x : /\ (IF isBuyer THEN x.seller ELSE x.buyer) = targetUser
                       /\ x.status = "completed"
                       /\ (IF isBuyer THEN x.buyerRating ELSE x.sellerRating) # 0)

\* orderSchema.methods.addRating: this.constructor.find(...)
findRatedOrders(p) ==
  /\ req[p].pc = "find"
  /\ LET r == req[p]
         isBuyer == r.doc[1].buyer = r.user
         targetUser == IF isBuyer THEN r.doc[1].seller ELSE r.doc[1].buyer
         found == RatedOrders(targetUser, isBuyer)
     IN  req' = [req EXCEPT ![p].pc = "profile",
                            ![p].found = <<SumScores(found, isBuyer), Len(found)>>]
  /\ UNCHANGED <<Db, before, hookOrder, sockets, chats, creq, clock>>

RECURSIVE GCD(_, _)
GCD(a, b) == IF b = 0 THEN a ELSE GCD(b, a % b)

\* the average rounded down to a whole number
Quotient_floor(sum, total) == <<sum \div total, 1>>

\* sumRatings / totalRatings as an exact fraction in lowest terms
Quotient(sum, total) == <<sum \div GCD(sum, total), total \div GCD(sum, total)>>

\* orderSchema.methods.addRating: User.findByIdAndUpdate(targetUser, rating)
updateProfile(p) ==
  /\ req[p].pc = "profile"
  /\ LET r == req[p]
         isBuyer == r.doc[1].buyer = r.user
         targetUser == IF isBuyer THEN r.doc[1].seller ELSE r.doc[1].buyer
         sumRatings == r.found[1]
         totalRatings == r.found[2]
         averageRating == IF totalRatings > 0 THEN Quotient(sumRatings, totalRatings)
                                              ELSE <<0, 1>>
     IN  profile' = [profile EXCEPT ![targetUser] =
                        [average |-> averageRating, count |-> totalRatings]]
  /\ req' = [req EXCEPT ![p].pc = "respond"]
  /\ UNCHANGED <<listings, orders, userOrders, changes, before, hookOrder, sockets, chats, creq, clock>>

\* the socket notification of a handler, then res.status(2xx).json(...)
respond(p) ==
  /\ req[p].pc = "respond"
  /\ LET r == req[p]
         order == r.doc[1]
         other == IF r.user = order.buyer THEN order.seller ELSE order.buyer
         sent == CASE r.op = "createOrder" -> emit(r, order.seller, "new-order")
                   [] r.op = "updateOrderStatus" -> emit(r, other, "order-status-update")
                   [] r.op = "updateMeetupDetails" -> emit(r, other, "meetup-updated")
                   [] r.op = "cancelOrder" -> emit(r, other, "order-cancelled")
                   [] OTHER -> r
     IN  /\ req' = [req EXCEPT ![p] = [sent EXCEPT !.pc = "done", !.result = "ok"]]
         /\ sockets' = IF sent = r THEN sockets ELSE deliver(sent.events[Len(sent.events)])
  /\ UNCHANGED <<Db, before, hookOrder, chats, creq, clock>>

\* the response has been sent: the slot is free for the next request
finish(p) ==
  /\ req[p].pc = "done"
  /\ req' = [req EXCEPT ![p] = Idle]
  /\ before' = Snapshot
  /\ UNCHANGED <<Db, hookOrder, sockets, chats, creq, clock>>

----------------------------------------------------------------------------
(* Specifications *)

Start(p) ==
  \/ \E u \in Users, l \in ListingIds \cup {MissingListing}, f \in FinalPrices :
        createOrder(p, u, l, f)
  \/ \E u \in Users, o \in OrderIds, s \in Statuses, n \in NoteInputs :
        updateOrderStatus(p, u, o, s, n)
  \/ \E u \in Users, o \in OrderIds, m \in Meetups : updateMeetupDetails(p, u, o, m)
  \/ \E u \in Users, o \in OrderIds, sc \in Scores : addRating(p, u, o, sc)
  \/ \E u \in Users, o \in OrderIds, rs \in Reasons : cancelOrder(p, u, o, rs)
  \/ \E u \in Users, o \in OrderIds, rs \in Reasons : initiateDispute(p, u, o, rs)
  \/ \E u \in Users, o \in OrderIds, n \in NotesInputs : addNotes(p, u, o, n)

Continue(p) ==
  \/ insertOrder(p)
  \/ reserveListing(p)
  \/ pushBuyerOrder(p)
  \/ pushSellerOrder(p)
  \/ saveOrder(p)
  \/ updateListing(p)
  \/ findRatedOrders(p)
  \/ updateProfile(p)
  \/ respond(p)
  \/ finish(p)

\* handlers run one at a time: a request is served to its response before
\* the next one starts
Next == Start(1) \/ Continue(1)

Spec == Init /\ [][Next]_vars

\* the callers of the interleaved requests: the parties of the order
Parties == {"alice", "bob"}

\* the interleaved requests: those that pass their handler's checks (a
\* request refused at its first step writes nothing), on timelines of less
\* than MaxTimelineConc entries
StartConc(p) ==
  \/ \E l \in ListingIds, f \in FinalPrices :
        /\ createOrderError("bob", l, f) = "none"
        /\ createOrder(p, "bob", l, f)
  \/ \E u \in Parties, o \in OrderIds, s \in Statuses, n \in NoteInputs :
        /\ updateOrderStatusError(u, o, s) = "none"
        /\ Room(o, MaxTimelineConc)
        /\ updateOrderStatus(p, u, o, s, n)
  \/ \E u \in Parties, o \in OrderIds, m \in Meetups :
        /\ updateMeetupDetailsError(u, o) = "none"
        /\ Room(o, MaxTimelineConc)
        /\ updateMeetupDetails(p, u, o, m)
  \/ \E u \in Parties, o \in OrderIds :
        /\ addRatingError(u, o) = "none"
        /\ addRating(p, u, o, 5)
  \/ \E u \in Parties, o \in OrderIds, rs \in Reasons :
        /\ cancelOrderError(u, o, rs) = "none"
        /\ Room(o, MaxTimelineConc)
        /\ cancelOrder(p, u, o, rs)
  \/ \E u \in Parties, o \in OrderIds, rs \in Reasons :
        /\ initiateDisputeError(u, o, rs) = "none"
        /\ Room(o, MaxTimelineConc)
        /\ initiateDispute(p, u, o, rs)
  \/ \E u \in Parties, o \in OrderIds, n \in NotesInputs :
        /\ addNotesError(u, o, n) = "none"
        /\ addNotes(p, u, o, n)

\* handlers of different requests interleave at their storage round trips
NextConc == \E p \in Procs : StartConc(p) \/ Continue(p)

SpecConc == Init /\ [][NextConc]_vars

----------------------------------------------------------------------------
(* Several orders of one listing *)

\* the buyers of alice's listing
Buyers == {"bob", "carol"}

\* the steps of createOrder and of the handlers that change a status
ContinueMany(p) ==
  \/ insertOrder(p)
  \/ reserveListing(p)
  \/ pushBuyerOrder(p)
  \/ pushSellerOrder(p)
  \/ saveOrder(p)
  \/ updateListing(p)
  \/ respond(p)
  \/ finish(p)

\* createOrder and the requests that change the status of an order, those
\* that pass their handler's checks, on up to MaxOrdersMany orders with
\* timelines of less than MaxTimelineConc entries
StartMany(p) ==
  \/ \E u \in Buyers, l \in ListingIds :
        createOrderWithin(p, u, l, 40, MaxOrdersMany)
  \/ \E u \in Users, o \in ManyOrderIds, st \in Statuses :
        /\ updateOrderStatusError(u, o, st) = "none"
        /\ Room(o, MaxTimelineConc)
        /\ updateOrderStatus(p, u, o, st, "ok")
  \/ \E u \in Users, o \in ManyOrderIds :
        /\ cancelOrderError(u, o, "changed mind") = "none"
        /\ Room(o, MaxTimelineConc)
        /\ cancelOrder(p, u, o, "changed mind")
  \/ \E u \in Users, o \in ManyOrderIds :
        /\ initiateDisputeError(u, o, "changed mind") = "none"
        /\ Room(o, MaxTimelineConc)
        /\ initiateDispute(p, u, o, "changed mind")

\* alice's listing on sale and no order
InitMany ==
  /\ Init
  /\ listings = InitListings
  /\ hookOrder = "hook-first"

\* handlers run one at a time
NextMany == StartMany(1) \/ ContinueMany(1)

SpecMany == InitMany /\ [][NextMany]_vars

\* createOrder requests of the buyers, interleaved at their awaits
StartRace(p) ==
  \E u \in Buyers, l \in ListingIds, f \in FinalPrices :
     createOrderWithin(p, u, l, f, MaxOrdersMany)

NextRace ==
  \E p \in Procs :
     \/ StartRace(p)
     \/ insertOrder(p)
     \/ reserveListing(p)
     \/ pushBuyerOrder(p)
     \/ pushSellerOrder(p)
     \/ respond(p)
     \/ finish(p)

SpecRace == InitMany /\ [][NextRace]_vars

----------------------------------------------------------------------------
(* The socket.io connections *)

Served == <<listings, orders, userOrders, profile, req, changes, before, hookOrder,
            chats, creq, clock>>

\* io.on('connection'): the client u opens connection c
connection(c, u) ==
  /\ ~sockets[c].open
  /\ sockets' = [sockets EXCEPT ![c] = [NoSocket EXCEPT !.open = TRUE, !.client = u]]
  /\ UNCHANGED Served

\* socket.on('join'): the connection joins the room named by the userId of
\* the message
join(c, userId) ==
  /\ sockets[c].open
  /\ sockets' = [sockets EXCEPT ![c].rooms = @ \cup {userId}]
  /\ UNCHANGED Served

\* socket.on('disconnect'): the connection leaves its rooms
disconnect(c) ==
  /\ sockets[c].open
  /\ sockets' = [sockets EXCEPT ![c] = NoSocket]
  /\ UNCHANGED Served

\* the connections open, join rooms and close while createOrder requests are
\* served one at a time
NextSocket ==
  \/ \E c \in Conns, u \in Users : connection(c, u)
  \/ \E c \in Conns, userId \in Users : join(c, userId)
  \/ \E c \in Conns : disconnect(c)
  \/ \E u \in Buyers, l \in ListingIds : createOrder(1, u, l, 40)
  \/ insertOrder(1)
  \/ reserveListing(1)
  \/ pushBuyerOrder(1)
  \/ pushSellerOrder(1)
  \/ respond(1)
  \/ finish(1)

SpecSocket == InitMany /\ [][NextSocket]_vars

----------------------------------------------------------------------------
(* Failing follow-up calls *)

\* the steps a handler takes after its order has been written
FollowUps == {"reserve", "pushBuyer", "pushSeller", "listing", "find", "profile", "respond"}

\* catchAsync: the awaited call of a follow-up step rejects (or the publish
\* throws) and the rejection goes to next(err): the request ends with the
\* error handler's response, what was written before stays written
reject(p) ==
  /\ req[p].pc \in FollowUps
  /\ req' = [req EXCEPT ![p] = Fail(req[p], "ServerError")]
  /\ UNCHANGED <<Db, before, hookOrder, sockets, chats, creq, clock>>

\* requests served one at a time by handlers whose follow-up calls may fail
NextFail == StartConc(1) \/ Continue(1) \/ reject(1)

SpecFail == Init /\ [][NextFail]_vars

----------------------------------------------------------------------------
(* Listing handlers: edit and delete *)

\* the bodies of the edit requests: a new title, a new price, a new status,
\* and a new title together with another seller
ListingBodies ==
  {[NoBody EXCEPT !.title = "desk"],
   [NoBody EXCEPT !.price = 30],
   [NoBody EXCEPT !.status = "inactive"],
   [NoBody EXCEPT !.title = "lamp", !.seller = "bob"]}

\* the checks of the listing controller's updateListing and deleteListing
listingOwnerError(u, l) ==
  IF l \notin DOMAIN listings THEN "NotFound"
  ELSE IF listings[l].seller # u /\ role[u] # "admin" THEN "Forbidden"
  ELSE "none"

\* the update document of Listing.findByIdAndUpdate(id, req.body) after
\* delete req.body.seller, applied to the stored listing
applyBody(listing, body) ==
  [listing EXCEPT !.title = IF body.title # "" THEN body.title ELSE @,
                  !.price = IF body.price # -1 THEN body.price ELSE @,
                  !.status = IF body.status # NoStatus THEN body.status ELSE @]

\* listing controller, updateListing: find the listing, check the owner
editListing(p, u, l, body) ==
  /\ Free(p)
  /\ LET r == [Request("updateListing", u, 0) EXCEPT !.lid = l, !.body = body]
         error == listingOwnerError(u, l)
     IN  req' = [req EXCEPT ![p] = IF error # "none" THEN Fail(r, error)
                                                     ELSE [r EXCEPT !.pc = "edit"]]
  /\ UNCHANGED <<Db, before, hookOrder, sockets, chats, creq, clock>>

\* listing controller, updateListing: Listing.findByIdAndUpdate and the response
writeListing(p) ==
  /\ req[p].pc = "edit"
  /\ LET l == req[p].lid
     IN  listings' = IF l \in DOMAIN listings
                       THEN [listings EXCEPT ![l] = applyBody(@, req[p].body)]
                       ELSE listings
  /\ req' = [req EXCEPT ![p].pc = "done", ![p].result = "ok"]
  /\ UNCHANGED <<orders, userOrders, profile, changes, before, hookOrder, sockets, chats, creq, clock>>

\* listing controller, deleteListing: find the listing, check the owner
deleteListing(p, u, l) ==
  /\ Free(p)
  /\ LET r == [Request("deleteListing", u, 0) EXCEPT !.lid = l]
         error == listingOwnerError(u, l)
     IN  req' = [req EXCEPT ![p] = IF error # "none" THEN Fail(r, error)
                                                     ELSE [r EXCEPT !.pc = "delete"]]
  /\ UNCHANGED <<Db, before, hookOrder, sockets, chats, creq, clock>>

\* listing controller, deleteListing: listing.deleteOne() and the response
removeListing(p) ==
  /\ req[p].pc = "delete"
  /\ listings' = [l \in DOMAIN listings \ {req[p].lid} |-> listings[l]]
  /\ req' = [req EXCEPT ![p].pc = "done", ![p].result = "ok"]
  /\ UNCHANGED <<orders, userOrders, profile, changes, before, hookOrder, sockets, chats, creq, clock>>

StartListing(p) ==
  \/ \E u \in Users, l \in ListingIds, body \in ListingBodies : editListing(p, u, l, body)
  \/ \E u \in Users, l \in ListingIds : deleteListing(p, u, l)

\* order requests and listing requests, served one at a time
NextListing ==
  \/ StartConc(1)
  \/ StartListing(1)
  \/ Continue(1)
  \/ writeListing(1)
  \/ removeListing(1)

SpecListing == Init /\ [][NextListing]_vars

----------------------------------------------------------------------------
(* Chat handlers: the checks *)

\* Chat.findById
findChatById(id) == IF id \in 1 .. Len(chats) THEN <<chats[id]>> ELSE <<>>

FreeChat(p) == creq[p].pc = "idle"

FailChat(r, kind) == [r EXCEPT !.pc = "done", !.result = kind]

emitChat(r, recipient, name) ==
  [r EXCEPT !.events = Append(@, [to |-> recipient, name |-> name, chat |-> r.cid])]

ChatRequest(op, user, cid) == [IdleChat EXCEPT !.op = op, !.user = user, !.cid = cid]

\* the chats that findOrCreate's query matches
MatchingChats(buyerId, sellerId, listingId) ==
  {c \in 1 .. Len(chats) : /\ isParticipant(chats[c], buyerId)
                           /\ isParticipant(chats[c], sellerId)
                           /\ chats[c].listing = listingId}

\* getOrCreateChat requests that have not created or found their chat yet
ChatCreates == Cardinality({q \in Procs : creq[q].pc \in {"findOne", "create"}})

\* sendMessage requests that have not pushed their message to chat c yet
Sends(c) == Cardinality({q \in Procs : /\ creq[q].pc = "save" /\ creq[q].cid = c
                                       /\ creq[q].op = "sendMessage"})

\* read requests that have not stamped their messages yet
Reads == Cardinality({q \in Procs : /\ creq[q].pc = "save"
                                    /\ creq[q].op \in {"markChatAsRead", "getChatById"}})

getOrCreateChatError(u, l, sellerId) ==
  IF sellerId = NoUser THEN "Required"
  ELSE IF l \notin DOMAIN listings THEN "NotFound"
  ELSE IF sellerId = u THEN "Self"
  ELSE IF listings[l].seller # sellerId THEN "InvalidSeller"
  ELSE "none"

\* the checks getChatById, markChatAsRead, deleteChat and toggleBlockChat share
participantError(u, c) ==
  IF findChatById(c) = <<>> THEN "NotFound"
  ELSE IF ~isParticipant(findChatById(c)[1], u) THEN "Forbidden"
  ELSE "none"

\* sendMessage without the check that the recipient has blocked the chat
sendMessageError_ignoreRecipientBlock(u, c, body) ==
  IF body.content = NoContent THEN "ValidationError"
  ELSE IF findChatById(c) = <<>> THEN "NotFound"
  ELSE LET chat == findChatById(c)[1]
       IN  IF ~isParticipant(chat, u) THEN "Forbidden"
           ELSE IF isBlockedBy(chat, u) THEN "Forbidden"
           ELSE "none"

sendMessageError(u, c, body) ==
  IF body.content = NoContent THEN "ValidationError"
  ELSE IF findChatById(c) = <<>> THEN "NotFound"
  ELSE LET chat == findChatById(c)[1]
       IN  IF ~isParticipant(chat, u) THEN "Forbidden"
           ELSE IF isBlockedBy(chat, u) THEN "Forbidden"
           ELSE IF isBlockedBy(chat, otherParticipant(chat, u)) THEN "Forbidden"
           ELSE "none"

\* respondToOffer without the check that the caller is the listing's seller
respondToOfferError_anyCaller(u, c, mid, status) ==
  IF status \notin {"accepted", "rejected"} THEN "InvalidStatus"
  ELSE IF findChatById(c) = <<>> THEN "NotFound"
  ELSE LET chat == findChatById(c)[1]
       IN  IF chat.listing \notin DOMAIN listings THEN "ServerError"
           ELSE IF mid \notin 1 .. Len(chat.messages) THEN "NotFound"
           ELSE IF chat.messages[mid].type # "offer" THEN "NotOffer"
           ELSE IF chat.messages[mid].offerStatus # "pending" THEN "AlreadyResponded"
           ELSE "none"

\* respondToOffer without the check that the offer is still pending
respondToOfferError_anyOfferStatus(u, c, mid, status) ==
  IF status \notin {"accepted", "rejected"} THEN "InvalidStatus"
  ELSE IF findChatById(c) = <<>> THEN "NotFound"
  ELSE LET chat == findChatById(c)[1]
       IN  IF chat.listing \notin DOMAIN listings THEN "ServerError"
           ELSE IF listings[chat.listing].seller # u THEN "Forbidden"
           ELSE IF mid \notin 1 .. Len(chat.messages) THEN "NotFound"
           ELSE IF chat.messages[mid].type # "offer" THEN "NotOffer"
           ELSE "none"

respondToOfferError(u, c, mid, status) ==
  IF status \notin {"accepted", "rejected"} THEN "InvalidStatus"
  ELSE IF findChatById(c) = <<>> THEN "NotFound"
  ELSE LET chat == findChatById(c)[1]
       IN  IF chat.listing \notin DOMAIN listings THEN "ServerError"
           ELSE IF listings[chat.listing].seller # u THEN "Forbidden"
           ELSE IF mid \notin 1 .. Len(chat.messages) THEN "NotFound"
           ELSE IF chat.messages[mid].type # "offer" THEN "NotOffer"
           ELSE IF chat.messages[mid].offerStatus # "pending" THEN "AlreadyResponded"
           ELSE "none"

----------------------------------------------------------------------------
(* Chat handlers: from the request to the first write (or the error response) *)

\* a handler serves request r on its loaded chat
ServeChat(p, r, error) ==
  /\ FreeChat(p)
  /\ creq' = [creq EXCEPT ![p] = IF error # "none" THEN FailChat(r, error)
                                  ELSE [r EXCEPT !.pc = "save", !.doc = findChatById(r.cid)]]
  /\ UNCHANGED <<Db, req, before, hookOrder, sockets, chats, clock>>

\* getOrCreateChat while the collection, with the chats being created, holds
\* fewer than max chats
getOrCreateChatWithin(p, u, l, sellerId, max) ==
  /\ FreeChat(p)
  /\ LET r == [ChatRequest("getOrCreateChat", u, 0) EXCEPT !.lid = l, !.sellerId = sellerId]
         error == getOrCreateChatError(u, l, sellerId)
     IN  IF error # "none"
           THEN creq' = [creq EXCEPT ![p] = FailChat(r, error)]
           ELSE /\ \/ MatchingChats(u, sellerId, l) # {}
                   \/ Len(chats) + ChatCreates < max
                /\ creq' = [creq EXCEPT ![p] = [r EXCEPT !.pc = "findOne"]]
  /\ UNCHANGED <<Db, req, before, hookOrder, sockets, chats, clock>>

getOrCreateChat(p, u, l, sellerId) == getOrCreateChatWithin(p, u, l, sellerId, MaxChats)

getChatById(p, u, c) ==
  /\ participantError(u, c) = "none" => clock + Reads <= MaxReads
  /\ ServeChat(p, ChatRequest("getChatById", u, c), participantError(u, c))

markChatAsRead(p, u, c) ==
  /\ participantError(u, c) = "none" => clock + Reads <= MaxReads
  /\ ServeChat(p, ChatRequest("markChatAsRead", u, c), participantError(u, c))

sendMessage(p, u, c, body) ==
  /\ sendMessageError(u, c, body) = "none" => Len(chats[c].messages) + Sends(c) < MaxMessages
  /\ ServeChat(p, [ChatRequest("sendMessage", u, c) EXCEPT
                      !.content = body.content, !.type = body.type,
                      !.image = body.image, !.amount = body.amount],
               sendMessageError(u, c, body))

deleteChat(p, u, c) ==
  ServeChat(p, ChatRequest("deleteChat", u, c), participantError(u, c))

toggleBlockChat(p, u, c) ==
  ServeChat(p, ChatRequest("toggleBlockChat", u, c), participantError(u, c))

respondToOffer(p, u, c, mid, status) ==
  ServeChat(p, [ChatRequest("respondToOffer", u, c) EXCEPT !.mid = mid, !.status = status],
            respondToOfferError(u, c, mid, status))

----------------------------------------------------------------------------
(* Chat handlers: the storage writes and the response *)

\* Chat.findOrCreate: this.findOne({participants: {$all: [...]}, listing})
findOne(p) ==
  /\ creq[p].pc = "findOne"
  /\ LET r == creq[p]
         found == MatchingChats(r.user, r.sellerId, r.lid)
     IN  creq' = [creq EXCEPT ![p] =
                    IF found # {}
                      THEN [r EXCEPT !.pc = "respond",
                                     !.cid = CHOOSE c \in found : \A d \in found : c <= d]
                      ELSE [r EXCEPT !.pc = "create"]]
  /\ UNCHANGED <<Db, req, before, hookOrder, sockets, chats, clock>>

\* Chat.findOrCreate: this.create({participants: [buyerId, sellerId], ...})
createChat(p) ==
  /\ creq[p].pc = "create"
  /\ LET r == creq[p]
         doc == NewChat(r.user, r.sellerId, r.lid)
     IN  IF chatPreSave(doc.participants)
           THEN /\ chats' = Append(chats, doc)
                /\ creq' = [creq EXCEPT ![p] = [r EXCEPT !.pc = "respond",
                                                        !.cid = Len(chats) + 1]]
           ELSE /\ creq' = [creq EXCEPT ![p] = FailChat(r, "ServerError")]
                /\ UNCHANGED chats
  /\ UNCHANGED <<Db, req, before, hookOrder, sockets, clock>>

\* the messages of the loaded chat that markAsRead stamps for userId
UnreadFor(loaded, userId) ==
  {i \in 1 .. Len(loaded.messages) :
     ~loaded.messages[i].isRead /\ loaded.messages[i].sender # userId}

\* markAsRead that stamps the messages and leaves the counter as it is
markAsRead_keepCount(stored, loaded, userId, t) ==
  LET unread == UnreadFor(loaded, userId)
  IN  [stored EXCEPT
         !.messages = [i \in 1 .. Len(stored.messages) |->
                         IF i \in unread
                           THEN [stored.messages[i] EXCEPT !.isRead = TRUE, !.readAt = t]
                           ELSE stored.messages[i]]]

\* markAsRead stamping every message of the other participant again
markAsRead_restamp(stored, loaded, userId, t) ==
  LET others == {i \in 1 .. Len(loaded.messages) : loaded.messages[i].sender # userId}
  IN  [stored EXCEPT
         !.messages = [i \in 1 .. Len(stored.messages) |->
                         IF i \in others
                           THEN [stored.messages[i] EXCEPT !.isRead = TRUE, !.readAt = t]
                           ELSE stored.messages[i]],
         !.unreadCount = IF others # {} THEN unreadSet(@, userId, 0) ELSE @]

\* chatSchema.methods.markAsRead, as the update its save() sends: the
\* messages the loaded copy holds unread from the other participant are
\* stamped, and the reader's counter is reset if there was one
markAsRead(stored, loaded, userId, t) ==
  LET unread == UnreadFor(loaded, userId)
  IN  [stored EXCEPT
         !.messages = [i \in 1 .. Len(stored.messages) |->
                         IF i \in unread
                           THEN [stored.messages[i] EXCEPT !.isRead = TRUE, !.readAt = t]
                           ELSE stored.messages[i]],
         !.unreadCount = IF unread # {} THEN unreadSet(@, userId, 0) ELSE @]

\* toggleBlockChat's block that adds the user to the participants
block_asParticipant(chat, userId) == [chat EXCEPT !.participants = Append(@, userId)]

\* toggleBlockChat: chat.blockedBy.push(req.user._id)
block(chat, userId) == [chat EXCEPT !.blockedBy = Append(@, userId)]

\* an unblock that empties blockedBy
unblock_all(chat, loaded, userId) == [chat EXCEPT !.blockedBy = <<>>]

\* toggleBlockChat: chat.blockedBy = chat.blockedBy.filter(...), taken from
\* the loaded copy
unblock(chat, loaded, userId) ==
  [chat EXCEPT !.blockedBy = SelectSeq(loaded.blockedBy, LAMBDA id : id # userId)]

\* a deleteChat that also empties the messages
ChatSaved_deleteClears(r, stored) ==
  LET loaded == r.doc[1] IN
  CASE r.op = "sendMessage" ->
         LET message == NewMessage(r.user, r.content, r.type, r.image, r.amount)
         IN  updateLastMessage([stored EXCEPT !.messages = Append(@, Stored(message, clock))],
                               message)
    [] r.op \in {"getChatById", "markChatAsRead"} -> markAsRead(stored, loaded, r.user, clock)
    [] r.op = "deleteChat" -> [stored EXCEPT !.isActive = FALSE, !.messages = <<>>]
    [] r.op = "toggleBlockChat" ->
         IF isBlockedBy(loaded, r.user) THEN unblock(stored, loaded, r.user)
                                        ELSE block(stored, r.user)
    [] r.op = "respondToOffer" -> [stored EXCEPT !.messages[r.mid].offerStatus = r.status]

\* what the first save() of the handler's chat changes in the stored one
ChatSaved(r, stored) ==
  LET loaded == r.doc[1] IN
  CASE r.op = "sendMessage" ->
         LET message == NewMessage(r.user, r.content, r.type, r.image, r.amount)
         IN  updateLastMessage([stored EXCEPT !.messages = Append(@, Stored(message, clock))],
                               message)
    [] r.op \in {"getChatById", "markChatAsRead"} -> markAsRead(stored, loaded, r.user, clock)
    [] r.op = "deleteChat" -> [stored EXCEPT !.isActive = FALSE]
    [] r.op = "toggleBlockChat" ->
         IF isBlockedBy(loaded, r.user) THEN unblock(stored, loaded, r.user)
                                        ELSE block(stored, r.user)
    [] r.op = "respondToOffer" -> [stored EXCEPT !.messages[r.mid].offerStatus = r.status]

\* The version key (__v) of a chat, which the schema leaves enabled, kept as
\* the one fact save() uses: r.stale says that the stored version has moved on
\* since request r loaded its copy.
\* a save that pushes to an array, or assigns one, increments the version
IncrementsVersion(r) == r.op \in {"sendMessage", "toggleBlockChat"}

\* a save that sets a path inside an array element, or assigns an array, is
\* sent with the loaded version as a condition
ChecksVersion(r) ==
  LET loaded == r.doc[1] IN
  \/ r.op \in {"getChatById", "markChatAsRead"} /\ UnreadFor(loaded, r.user) # {}
  \/ r.op = "respondToOffer"
  \/ r.op = "toggleBlockChat" /\ isBlockedBy(loaded, r.user)

\* the other requests that hold a copy of chat c loaded before this save
Outdated(p, c, q) == q # p /\ creq[q].cid = c /\ creq[q].doc # <<>>

\* chat.save() of a chat loaded by findById; the pre('save') hook looks at
\* the participants of the loaded copy, and a save conditioned on a version
\* that is no longer the stored one is rejected (VersionError)
saveChat(p) ==
  /\ creq[p].pc = "save"
  /\ LET r == creq[p] IN
       IF chatPreSave(r.doc[1].participants) /\ ~(ChecksVersion(r) /\ r.stale)
         THEN /\ chats' = [chats EXCEPT ![r.cid] = ChatSaved(r, @)]
              /\ creq' = [q \in Procs |->
                            IF q = p
                              THEN [r EXCEPT !.pc = IF r.op = "sendMessage" THEN "unread"
                                                                            ELSE "respond"]
                            ELSE IF IncrementsVersion(r) /\ Outdated(p, r.cid, q)
                              THEN [creq[q] EXCEPT !.stale = TRUE]
                            ELSE creq[q]]
              /\ clock' = IF /\ r.op \in {"getChatById", "markChatAsRead"}
                              /\ UnreadFor(r.doc[1], r.user) # {}
                             THEN clock + 1 ELSE clock
         ELSE /\ creq' = [creq EXCEPT ![p] = FailChat(r, "ServerError")]
              /\ UNCHANGED <<chats, clock>>
  /\ UNCHANGED <<Db, req, before, hookOrder, sockets>>

\* sendMessage: chat.incrementUnread(recipient), counting from the loaded copy
incrementUnread(p) ==
  /\ creq[p].pc = "unread"
  /\ LET r == creq[p]
         recipient == otherParticipant(r.doc[1], r.user)
         currentCount == unreadGet(r.doc[1].unreadCount, recipient)
     IN  IF chatPreSave(r.doc[1].participants)
           THEN /\ chats' = [chats EXCEPT ![r.cid].unreadCount =
                                unreadSet(@, recipient, currentCount + 1)]
                /\ creq' = [creq EXCEPT ![p].pc = "respond"]
           ELSE /\ creq' = [creq EXCEPT ![p] = FailChat(r, "ServerError")]
                /\ UNCHANGED chats
  /\ UNCHANGED <<Db, req, before, hookOrder, sockets, clock>>

\* a respondToOffer whose acceptance marks the listing as sold
respondChat_sellsListing(p) ==
  /\ creq[p].pc = "respond"
  /\ LET r == creq[p]
         sent == CASE r.op = "sendMessage" ->
                        emitChat(r, otherParticipant(r.doc[1], r.user), "new-message")
                   [] r.op = "respondToOffer" ->
                        emitChat(r, otherParticipant(r.doc[1], r.user), "offer-response")
                   [] OTHER -> r
     IN  /\ creq' = [creq EXCEPT ![p] = [sent EXCEPT !.pc = "done", !.result = "ok"]]
         /\ listings' = IF r.op = "respondToOffer" /\ r.status = "accepted"
                          THEN [listings EXCEPT ![r.doc[1].listing].status = "sold"]
                          ELSE listings
  /\ UNCHANGED <<orders, userOrders, profile, changes, req, before, hookOrder, sockets, chats, clock>>

\* the socket notification of a chat handler, then res.status(2xx).json(...)
respondChat(p) ==
  /\ creq[p].pc = "respond"
  /\ LET r == creq[p]
         sent == CASE r.op = "sendMessage" ->
                        emitChat(r, otherParticipant(r.doc[1], r.user), "new-message")
                   [] r.op = "respondToOffer" ->
                        emitChat(r, otherParticipant(r.doc[1], r.user), "offer-response")
                   [] OTHER -> r
     IN  /\ creq' = [creq EXCEPT ![p] = [sent EXCEPT !.pc = "done", !.result = "ok"]]
         /\ sockets' = IF sent = r THEN sockets ELSE deliver(sent.events[Len(sent.events)])
  /\ UNCHANGED <<Db, req, before, hookOrder, chats, clock>>

finishChat(p) ==
  /\ creq[p].pc = "done"
  /\ creq' = [creq EXCEPT ![p] = IdleChat]
  /\ before' = Snapshot
  /\ UNCHANGED <<Db, req, hookOrder, sockets, chats, clock>>

StartChat(p) ==
  \/ \E u \in Users, l \in ListingIds \cup {MissingListing}, sl \in {"alice", "bob", NoUser} :
        getOrCreateChat(p, u, l, sl)
  \/ \E u \in Users, c \in ChatIds : getChatById(p, u, c)
  \/ \E u \in Users, c \in ChatIds : markChatAsRead(p, u, c)
  \/ \E u \in Users, c \in ChatIds, body \in PlainBodies : sendMessage(p, u, c, body)
  \/ \E u \in Users, c \in ChatIds : deleteChat(p, u, c)
  \/ \E u \in Users, c \in ChatIds : toggleBlockChat(p, u, c)
  \/ \E u \in Users, c \in ChatIds, mid \in 1 .. MaxMessages, st \in OfferResponses :
        respondToOffer(p, u, c, mid, st)

ContinueChat(p) ==
  \/ findOne(p)
  \/ createChat(p)
  \/ saveChat(p)
  \/ incrementUnread(p)
  \/ respondChat(p)
  \/ finishChat(p)

\* chat requests served one at a time
NextChat == StartChat(1) \/ ContinueChat(1)

\* the collections when the first chat request arrives: alice's listing on
\* sale, no order, no chat
InitChat ==
  /\ Init
  /\ listings = InitListings
  /\ hookOrder = "validate-first"

SpecChat == InitChat /\ [][NextChat]_vars

----------------------------------------------------------------------------
(* Messages of every type *)

\* getOrCreateChat and sendMessage with every message body, one at a time
StartSend(p) ==
  \/ \E u \in Users, l \in ListingIds, sl \in {"alice", "bob"} : getOrCreateChat(p, u, l, sl)
  \/ \E u \in Users, c \in ChatIds, body \in MessageBodies : sendMessage(p, u, c, body)

NextSend == StartSend(1) \/ ContinueChat(1)

SpecSend == InitChat /\ [][NextSend]_vars

----------------------------------------------------------------------------
(* Offers in a chat next to the order of the listing *)

\* the offer message bodies
OfferBodies == {b \in MessageBodies : b.type = "offer"}

\* bob orders alice's listing and the order is confirmed or cancelled, while
\* the two negotiate in their chat: one request at a time
StartDeal(p) ==
  \/ FreeChat(p) /\ \E f \in FinalPrices : createOrder(p, "bob", "L1", f)
  \/ FreeChat(p) /\ \E u \in {"alice", "bob"}, o \in OrderIds, st \in {"confirmed", "cancelled"} :
                       updateOrderStatus(p, u, o, st, "ok")
  \/ Free(p) /\ getOrCreateChat(p, "bob", "L1", "alice")
  \/ Free(p) /\ \E u \in {"alice", "bob"}, c \in ChatIds, body \in OfferBodies :
                    sendMessage(p, u, c, body)
  \/ Free(p) /\ \E u \in Users, c \in ChatIds, mid \in 1 .. MaxMessages, st \in OfferResponses :
                    respondToOffer(p, u, c, mid, st)

ContinueDeal(p) ==
  \/ insertOrder(p)
  \/ reserveListing(p)
  \/ pushBuyerOrder(p)
  \/ pushSellerOrder(p)
  \/ saveOrder(p)
  \/ updateListing(p)
  \/ respond(p)
  \/ finish(p)
  \/ ContinueChat(p)

NextDeal == StartDeal(1) \/ ContinueDeal(1)

\* alice's listing on sale, no order, no chat
InitDeal ==
  /\ Init
  /\ listings = InitListings
  /\ hookOrder = "hook-first"

SpecDeal == InitDeal /\ [][NextDeal]_vars

----------------------------------------------------------------------------
(* Concurrent chat requests *)

\* getOrCreateChat requests of all processes, interleaved at their awaits
StartCreate(p) ==
  \E u \in Users, l \in ListingIds \cup {MissingListing}, sl \in {"alice", "bob", NoUser} :
     getOrCreateChatWithin(p, u, l, sl, MaxChatsConc)

NextCreate ==
  \E p \in Procs :
     StartCreate(p) \/ findOne(p) \/ createChat(p) \/ respondChat(p) \/ finishChat(p)

SpecCreate == InitChat /\ [][NextCreate]_vars

\* the text message bodies
TextBodies == {b \in MessageBodies : b.type = "text" /\ b.content # NoContent}

\* bob opens his chat with alice about her listing; the two send texts and
\* mark the chat as read, from all processes, interleaved at their awaits
StartTalk(p) ==
  \/ getOrCreateChat(p, "bob", "L1", "alice")
  \/ \E u \in {"alice", "bob"}, c \in ChatIds, body \in TextBodies : sendMessage(p, u, c, body)
  \/ \E u \in {"alice", "bob"}, c \in ChatIds : markChatAsRead(p, u, c)

NextTalk == \E p \in Procs : StartTalk(p) \/ ContinueChat(p)

SpecTalk == InitChat /\ [][NextTalk]_vars

----------------------------------------------------------------------------
(* Rating of completed orders *)

RatedIds == 1 .. MaxRated
ListingName == [i \in RatedIds |-> <<"L", i>>]

\* an order that went from pending to completed along the transition table
CompletedOrder(id, buyer, listingId, listing) ==
  updateStatus(
    updateStatus(
      updateStatus(
        updateStatus(preSave(NewOrder(buyer, listingId, listing, 40), id),
                     "confirmed", "ok"),
        "meetup-scheduled", "Meetup details added"),
      "in-progress", "ok"),
    "completed", "ok")

\* the collections once n listings have each been sold through an order that
\* completed: every order unrated, every profile without ratings
InitRated ==
  \E n \in RatedIds :
    \E buy \in [1 .. n -> Users], sel \in [1 .. n -> Users] :
      /\ \A i \in 1 .. n : buy[i] # sel[i]
      /\ listings = [l \in {ListingName[i] : i \in 1 .. n} |->
                       LET i == CHOOSE j \in 1 .. n : ListingName[j] = l
                       IN  [seller |-> sel[i], status |-> "sold", price |-> 45,
                            title |-> l]]
      /\ orders = [i \in 1 .. n |->
                     CompletedOrder(i, buy[i], ListingName[i], listings[ListingName[i]])]
      /\ userOrders = [u \in Users |->
                         SelectSeq([i \in 1 .. n |-> i],
                                   LAMBDA i : u \in {buy[i], sel[i]})]
      /\ profile = [u \in Users |-> NoRating]
      /\ req = [p \in Procs |-> Idle]
      /\ changes = [o \in 1 .. n |-> 4]
      /\ chats = <<>>
      /\ sockets = [c \in Conns |-> NoSocket]
      /\ creq = [p \in Procs |-> IdleChat]
      /\ clock = 1
      /\ before = Snapshot
      /\ hookOrder = "hook-first"

StartRating(p) ==
  \E u \in Users, o \in RatedIds, sc \in Scores : addRating(p, u, o, sc)

ContinueRating(p) ==
  \/ saveOrder(p)
  \/ findRatedOrders(p)
  \/ updateProfile(p)
  \/ respond(p)
  \/ finish(p)

\* ratings given one at a time
NextRating == StartRating(1) \/ ContinueRating(1)

SpecRating == InitRated /\ [][NextRating]_vars

\* interleaved ratings: requests that pass the handler's checks, no two of
\* them in service on the same order
StartRatingConc(p) ==
  \E u \in Users, o \in RatedIds :
    /\ addRatingError(u, o) = "none"
    /\ \A q \in Procs : req[q].pc = "idle" \/ req[q].oid # o
    /\ addRating(p, u, o, 5)

NextRatingConc == \E p \in Procs : StartRatingConc(p) \/ ContinueRating(p)

SpecRatingConc == InitRated /\ [][NextRatingConc]_vars

----------------------------------------------------------------------------
(* Properties of the order lifecycle *)

Existing == 1 .. Len(orders)

\* the transition table of the specification: the targets allowed from a status
Allowed(s) ==
  CASE s = "pending" -> {"confirmed", "cancelled"}
    [] s = "confirmed" -> {"meetup-scheduled", "cancelled"}
    [] s = "meetup-scheduled" -> {"in-progress", "cancelled"}
    [] s = "in-progress" -> {"completed", "disputed"}
    [] s = "disputed" -> {"completed", "cancelled"}
    [] OTHER -> {}

Responded(p, op) == req[p].pc = "done" /\ req[p].op = op

\* the order a request addressed, as it was stored when the request arrived
Before(p) == before.orders[req[p].oid]

Addressed(p) == req[p].oid \in 1 .. Len(before.orders)

IsParty(p) == req[p].user \in {Before(p).buyer, Before(p).seller}

LastEntry(order) == order.timeline[Len(order.timeline)]

\* C1: every change of an order's status is an edge of the transition table:
\* the timeline of every order starts with pending and every two consecutive
\* entries are a (source, target) pair of the table.
C1_TimelineFollowsTable ==
  \A o \in Existing :
    LET t == orders[o].timeline
    IN  /\ t[1].status = "pending"
        /\ \A i \in 1 .. Len(t) - 1 : t[i + 1].status \in Allowed(t[i].status)

\* C2: completed and cancelled are terminal: no step changes the status of an
\* order whose status is completed or cancelled.
C2_TerminalStatusStays ==
  [][\A o \in Existing :
       orders[o].status \in {"completed", "cancelled"}
         => orders'[o].status = orders[o].status]_vars

Authorized(p) == IsParty(p) \/ role[req[p].user] = "admin"

Untouched(p) ==
  /\ orders = before.orders
  /\ listings = before.listings
  /\ profile = before.profile
  /\ req[p].events = <<>>

IllegalTarget(p) ==
  /\ req[p].op = "updateOrderStatus"
  /\ req[p].pc # "idle"
  /\ Addressed(p)
  /\ req[p].target \notin Allowed(Before(p).status)

\* C3 as stated: an updateOrderStatus whose target is not an allowed
\* transition of the order's current status fails with InvalidTransition and
\* leaves the order, the listing and the event channel untouched.
C3_IllegalTargetIsInvalidTransition ==
  \A p \in Procs :
    IllegalTarget(p) =>
      /\ req[p].pc = "done"
      /\ req[p].result = "InvalidTransition"
      /\ Untouched(p)

\* C3 as amended: an updateOrderStatus by the order's buyer or seller or by an
\* admin whose target is not an allowed transition of the order's current
\* status fails with InvalidTransition and leaves the order (status, timeline,
\* cancellation, dispute, rating), the listing and the event channel
\* untouched; from any other caller it fails too (with Forbidden) and changes
\* nothing either.
C3_AuthorizedIllegalTargetIsInvalidTransition ==
  \A p \in Procs :
    IllegalTarget(p) =>
      /\ req[p].pc = "done"
      /\ req[p].result = IF Authorized(p) THEN "InvalidTransition" ELSE "Forbidden"
      /\ Untouched(p)

\* a party asked for the status the order already has and was refused
C3_Witness ==
  \E p \in Procs :
    /\ IllegalTarget(p)
    /\ IsParty(p)
    /\ req[p].target = Before(p).status
    /\ req[p].result = "InvalidTransition"

\* C4: the status of every order is the status of the last entry of its
\* timeline, in every state that interleaved handlers can produce.
C4_StatusIsLastTimelineEntry ==
  \A o \in Existing : orders[o].status = LastEntry(orders[o]).status

\* an order was confirmed after it was cancelled: the two handlers had both
\* loaded it while it was pending
C4_Witness ==
  \E o \in Existing :
    /\ Len(orders[o].timeline) = 3
    /\ orders[o].timeline[2].status = "cancelled"
    /\ orders[o].timeline[3].status = "confirmed"
    /\ orders[o].status = "confirmed"

\* C5: the timeline is append-only. A step that writes a status appends
\* exactly one entry, which carries the new status; no other step changes the
\* timeline; earlier entries are never modified, removed or reordered; and
\* the length of the timeline is 1 plus the number of status changes.
C5_TimelineAppendOnly ==
  [][/\ \A o \in Existing :
          LET t == orders[o].timeline
              t2 == orders'[o].timeline
          IN  /\ SubSeq(t2, 1, Len(t)) = t
              /\ IF changes'[o] = changes[o] + 1
                    THEN Len(t2) = Len(t) + 1 /\ t2[Len(t2)].status = orders'[o].status
                    ELSE t2 = t /\ orders'[o].status = orders[o].status
     /\ \A o \in 1 .. Len(orders') : Len(orders'[o].timeline) = 1 + changes'[o]]_vars

\* an order went pending -> confirmed -> meetup-scheduled, the last step
\* through updateMeetupDetails
C5_Witness ==
  \E o \in Existing :
    /\ Len(orders[o].timeline) = 3
    /\ changes[o] = 2
    /\ orders[o].timeline[3] = [status |-> "meetup-scheduled", note |-> <<"Meetup details added">>]

\* C6: a createOrder by a buyer B with a valid (non-negative) final price on
\* an active listing L whose seller S is not B succeeds; it adds exactly one
\* order, with buyer B, seller S, status pending and a timeline of the single
\* entry pending, leaves the other orders alone, sets L to reserved and
\* publishes exactly one event, new-order, to S.  It holds when the pre('save')
\* hook runs before validation and is violated when validation runs first:
\* the new document then has no order number and is rejected.
C6_CreateOrderEffect ==
  \A p \in Procs :
    LET r == req[p]
        was == before.listings
    IN  ( /\ Responded(p, "createOrder")
          /\ r.lid \in DOMAIN was
          /\ was[r.lid].status = "active"
          /\ was[r.lid].seller # r.user
          /\ r.price >= 0 )
        => /\ r.result = "ok"
           /\ Len(orders) = Len(before.orders) + 1
           /\ SubSeq(orders, 1, Len(before.orders)) = before.orders
           /\ LET new == orders[Len(orders)]
              IN  /\ new.buyer = r.user
                  /\ new.seller = was[r.lid].seller
                  /\ new.listing = r.lid
                  /\ new.status = "pending"
                  /\ Len(new.timeline) = 1
                  /\ new.timeline[1].status = "pending"
           /\ listings = [was EXCEPT ![r.lid].status = "reserved"]
           /\ r.events = << [to |-> was[r.lid].seller, name |-> "new-order",
                             order |-> Len(orders)] >>

\* C7: a createOrder fails, creates no order, leaves every listing's status
\* as it was and publishes no event when the listing does not exist, the
\* listing is not active, the caller is the listing's seller or the final
\* price is negative.
C7_CreateOrderRefused ==
  \A p \in Procs :
    LET r == req[p]
        was == before.listings
    IN  ( /\ r.op = "createOrder"
          /\ r.pc # "idle"
          /\ \/ r.lid \notin DOMAIN was
             \/ was[r.lid].status # "active"
             \/ was[r.lid].seller = r.user
             \/ r.price < 0 )
        => /\ r.pc = "done"
           /\ r.result \notin {"ok", "none"}
           /\ Untouched(p)

\* a buyer asked for a listing that is reserved by an order and was refused
C7_Witness ==
  \E p \in Procs :
    /\ Responded(p, "createOrder")
    /\ req[p].lid \in DOMAIN listings
    /\ before.listings[req[p].lid].status = "reserved"
    /\ before.listings[req[p].lid].seller # req[p].user
    /\ req[p].price >= 0
    /\ req[p].result = "NotAvailable"

\* C8: a successful updateOrderStatus to completed leaves the order's listing
\* sold, one to cancelled leaves it active, one to any other target leaves
\* every listing's status as it was.
C8_ListingFollowsStatus ==
  \A p \in Procs :
    LET r == req[p] IN
    (Responded(p, "updateOrderStatus") /\ r.result = "ok")
      => listings =
           IF r.target = "completed"
             THEN [before.listings EXCEPT ![Before(p).listing].status = "sold"]
           ELSE IF r.target = "cancelled"
             THEN [before.listings EXCEPT ![Before(p).listing].status = "active"]
           ELSE before.listings

\* an order in progress was completed and its reserved listing is sold
C8_Witness ==
  \E p \in Procs :
    /\ Responded(p, "updateOrderStatus")
    /\ req[p].result = "ok"
    /\ req[p].target = "completed"
    /\ Before(p).status = "in-progress"
    /\ before.listings[Before(p).listing].status = "reserved"
    /\ listings[Before(p).listing].status = "sold"

\* C9: a cancelOrder with a non-empty reason by the order's buyer or seller
\* succeeds exactly when the order is pending, confirmed or meetup-scheduled;
\* it then sets the status to cancelled, records the reason and the actor in
\* cancellation, appends one timeline entry and sets the listing to active.
\* In any other status, or with an empty reason, it fails and changes neither
\* the order nor the listing.
C9_CancelOrder ==
  \A p \in Procs :
    LET r == req[p] IN
    Responded(p, "cancelOrder") =>
      IF r.reason = ""
        THEN r.result # "ok" /\ Untouched(p)
      ELSE (Addressed(p) /\ IsParty(p)) =>
        IF Before(p).status \in {"pending", "confirmed", "meetup-scheduled"}
          THEN /\ r.result = "ok"
               /\ Len(orders) = Len(before.orders)
               /\ LET now == orders[r.oid]
                  IN  /\ now.status = "cancelled"
                      /\ now.cancellation.reason = r.reason
                      /\ now.cancellation.cancelledBy = r.user
                      /\ Len(now.timeline) = Len(Before(p).timeline) + 1
                      /\ SubSeq(now.timeline, 1, Len(Before(p).timeline)) = Before(p).timeline
                      /\ LastEntry(now).status = "cancelled"
               /\ listings = [before.listings EXCEPT ![Before(p).listing].status = "active"]
          ELSE r.result # "ok" /\ Untouched(p)

\* the seller cancelled a confirmed order whose listing was reserved
C9_Witness ==
  \E p \in Procs :
    /\ Responded(p, "cancelOrder")
    /\ req[p].result = "ok"
    /\ req[p].reason = "changed mind"
    /\ Before(p).status = "confirmed"
    /\ req[p].user = Before(p).seller
    /\ before.listings[Before(p).listing].status = "reserved"
    /\ orders[req[p].oid].cancellation = [cancelledBy |-> req[p].user, reason |-> "changed mind"]

Slot(order, u) == IF order.buyer = u THEN order.buyerRating ELSE order.sellerRating

\* C11: each rating slot of an order is set at most once: an addRating by a
\* party whose slot is already set fails with AlreadyRated (the
\* specification's AlreadyResolved) and leaves every order as it was.
C11_RatedOnce ==
  \A p \in Procs :
    ( /\ Responded(p, "addRating")
      /\ Addressed(p)
      /\ IsParty(p)
      /\ Slot(Before(p), req[p].user) # 0 )
    => /\ req[p].result = "AlreadyRated"
       /\ orders = before.orders

\* C12: an addRating on an order that is not completed, or by a user who is
\* neither its buyer nor its seller, fails and changes no order, listing or
\* profile; and a rating slot goes from unset to set only on an order whose
\* status is completed, by the save of a request of the slot's party.
C12_RatingNeedsCompletedAndParty ==
  /\ [](\A p \in Procs :
          ( /\ Responded(p, "addRating")
            /\ Addressed(p)
            /\ (Before(p).status # "completed" \/ ~IsParty(p)) )
          => /\ req[p].result \notin {"ok", "none"}
             /\ Untouched(p))
  /\ [][\A o \in Existing :
          /\ (orders[o].buyerRating = 0 /\ orders'[o].buyerRating # 0)
               => /\ orders[o].status = "completed"
                  /\ \E p \in Procs : /\ req[p].pc = "save" /\ req[p].op = "addRating"
                                       /\ req[p].oid = o
                                       /\ req[p].user = orders[o].buyer
          /\ (orders[o].sellerRating = 0 /\ orders'[o].sellerRating # 0)
               => /\ orders[o].status = "completed"
                  /\ \E p \in Procs : /\ req[p].pc = "save" /\ req[p].op = "addRating"
                                       /\ req[p].oid = o
                                       /\ req[p].user = orders[o].seller]_vars

\* an addRating on an order that is still pending has been refused
C12_Witness ==
  \E p \in Procs :
    /\ Responded(p, "addRating")
    /\ Addressed(p)
    /\ IsParty(p)
    /\ Before(p).status = "pending"
    /\ req[p].result = "NotCompleted"

\* the score user u received on order o as its seller (from the buyer) and as
\* its buyer (from the seller); 0 when there is none or the order is not
\* completed
ScoreAsSeller(o, u) ==
  IF orders[o].seller = u /\ orders[o].status = "completed" THEN orders[o].buyerRating ELSE 0
ScoreAsBuyer(o, u) ==
  IF orders[o].buyer = u /\ orders[o].status = "completed" THEN orders[o].sellerRating ELSE 0

RECURSIVE SumTo(_, _)
SumTo(f, n) == IF n = 0 THEN 0 ELSE f[n] + SumTo(f, n - 1)

SumAsSeller(u) == SumTo([o \in Existing |-> ScoreAsSeller(o, u)], Len(orders))
SumAsBuyer(u) == SumTo([o \in Existing |-> ScoreAsBuyer(o, u)], Len(orders))
CountAsSeller(u) == Cardinality({o \in Existing : ScoreAsSeller(o, u) # 0})
CountAsBuyer(u) == Cardinality({o \in Existing : ScoreAsBuyer(o, u) # 0})

\* the profile rating of u is the mean (as a fraction) and the number of
\* count scores that add up to sum
Aggregates(u, sum, count) ==
  /\ profile[u].count = count
  /\ profile[u].average[1] * count = sum * profile[u].average[2]

\* the profile of a user rated only as a seller agrees with the buyers' scores
SellerProfileExact(u) ==
  (CountAsSeller(u) >= 1 /\ CountAsBuyer(u) = 0)
    => Aggregates(u, SumAsSeller(u), CountAsSeller(u))

C14_ProfileCountsBothRoles ==
  \A p \in Procs :
    (Responded(p, "addRating") /\ req[p].result = "ok")
    => LET order == orders[req[p].oid]
           rated == IF req[p].user = order.buyer THEN order.seller ELSE order.buyer
       IN  Aggregates(rated, SumAsSeller(rated) + SumAsBuyer(rated),
                      CountAsSeller(rated) + CountAsBuyer(rated))

\* C15: once interleaved addRating calls on different completed orders have
\* all been answered, the profile of a user they rated as a seller equals the
\* value recomputed from the stored rated orders.
C15_ProfileMatchesRecompute ==
  (\A p \in Procs : req[p].pc = "idle") => \A u \in Users : SellerProfileExact(u)

\* a change of status that some handler makes when handlers run one at a
\* time: an edge of the table, or the step to disputed that initiateDispute
\* takes from any other status
SerialStep(a, b) == b \in Allowed(a) \/ (b = "disputed" /\ a # "disputed")

\* C16: status changes of one order are serialized: also when handlers
\* interleave, every two consecutive timeline entries are a change of status
\* that the handlers make when they run in some serial order, so a call whose
\* transition is illegal in that order appends no entry.
C16_StatusChangesSerialized ==
  \A o \in Existing :
    LET t == orders[o].timeline
    IN  \A i \in 1 .. Len(t) - 1 : SerialStep(t[i].status, t[i + 1].status)

\* C17: a createOrder, updateOrderStatus, cancelOrder or addRating whose order
\* write succeeded reports success to the caller, also when a follow-up call
\* (listing write, rating recompute, profile write, publish) failed.
C17_FollowUpFailureStillSucceeds ==
  \A p \in Procs :
    ( /\ req[p].pc = "done"
      /\ req[p].op \in {"createOrder", "updateOrderStatus", "cancelOrder", "addRating"}
      /\ orders # before.orders )
    => req[p].result = "ok"

OrderMutations ==
  {"updateOrderStatus", "updateMeetupDetails", "addRating", "cancelOrder",
   "initiateDispute", "addNotes"}

\* a request on an existing order by a user who is neither its buyer nor its
\* seller and who, for updateOrderStatus, is not an admin either
Outsider(p) ==
  /\ req[p].pc = "done"
  /\ req[p].op \in OrderMutations
  /\ Addressed(p)
  /\ ~IsParty(p)
  /\ req[p].op = "updateOrderStatus" => role[req[p].user] # "admin"

\* the request passes the checks its handler makes before the party check
PassesEarlierChecks(p) ==
  /\ req[p].op = "addRating" => Before(p).status = "completed"
  /\ req[p].op \in {"cancelOrder", "initiateDispute"} => req[p].reason # ""
  /\ req[p].op = "addNotes" => req[p].notes # ""

\* C18 as stated: every order-mutating operation called by an outsider fails
\* with Forbidden and leaves the order, its listing and all profiles unchanged.
C18_OutsiderIsForbidden ==
  \A p \in Procs : Outsider(p) => (req[p].result = "Forbidden" /\ Untouched(p))

\* C18: every order-mutating operation called by an outsider fails and leaves
\* the order, its listing and all profiles unchanged; it fails with Forbidden
\* when the request passes the checks the handler makes first (a reason for
\* cancelOrder and initiateDispute, notes for addNotes, a completed order for
\* addRating), and with the error of that earlier check otherwise.
C18_OutsiderIsRefused ==
  \A p \in Procs :
    Outsider(p) =>
      /\ Untouched(p)
      /\ req[p].result = IF PassesEarlierChecks(p) THEN "Forbidden"
                         ELSE IF req[p].op = "addRating" THEN "NotCompleted"
                         ELSE IF req[p].op = "addNotes" THEN "NotesRequired"
                         ELSE "ReasonRequired"

\* a user who is no party of the order asked to cancel it, with a reason, and
\* was refused
C18_Witness ==
  \E p \in Procs :
    /\ Outsider(p)
    /\ req[p].op = "cancelOrder"
    /\ req[p].reason # ""
    /\ Before(p).status = "pending"
    /\ req[p].result = "Forbidden"

ParticipantLists ==
  {<<>>} \cup {<<a>> : a \in Users} \cup {<<a, b>> : a, b \in Users}
         \cup {<<a, b, c>> : a, b, c \in Users}

----------------------------------------------------------------------------
(* Properties of the chats *)

\* the chats of one participant pair on one listing
SamePairAndListing(c, d) ==
  /\ {chats[c].participants[i] : i \in 1 .. Len(chats[c].participants)}
       = {chats[d].participants[i] : i \in 1 .. Len(chats[d].participants)}
  /\ chats[c].listing = chats[d].listing

\* C21: two getOrCreateChat calls in service together for the same buyer,
\* seller and listing answer with the same chat, and the collection never
\* holds two chats of one participant pair on one listing.
C21_OneChatPerPairAndListing ==
  /\ \A p, q \in Procs :
       (/\ creq[p].op = "getOrCreateChat" /\ creq[q].op = "getOrCreateChat"
        /\ creq[p].result = "ok" /\ creq[q].result = "ok"
        /\ creq[p].user = creq[q].user
        /\ creq[p].sellerId = creq[q].sellerId
        /\ creq[p].lid = creq[q].lid)
       => creq[p].cid = creq[q].cid
  /\ \A c, d \in 1 .. Len(chats) : SamePairAndListing(c, d) => c = d

\* the chat a finished request worked on, before the request and now
ChatBefore(r) == before.chats[r.cid]
ChatNow(r) == chats[r.cid]

\* C22: when a sendMessage by participant P has succeeded, the messages are
\* those before the call followed by one message of sender P (with offer
\* status pending if it is an offer), the other participant's unread counter
\* is one higher, P's own is unchanged, and the request has published exactly
\* one new-message event, addressed to the other participant.
C22_SendEffect ==
  \A p \in Procs :
    (creq[p].op = "sendMessage" /\ creq[p].pc = "done" /\ creq[p].result = "ok") =>
      LET r == creq[p]
          old == ChatBefore(r)
          new == ChatNow(r)
          other == otherParticipant(new, r.user)
          last == new.messages[Len(new.messages)]
      IN  /\ Len(new.messages) = Len(old.messages) + 1
          /\ SubSeq(new.messages, 1, Len(old.messages)) = old.messages
          /\ last.sender = r.user
          /\ last.content = r.content /\ last.type = r.type
          /\ last.type = "offer" => last.offerStatus = "pending"
          /\ unreadGet(new.unreadCount, other) = unreadGet(old.unreadCount, other) + 1
          /\ unreadGet(new.unreadCount, r.user) = unreadGet(old.unreadCount, r.user)
          /\ r.events = << [to |-> other, name |-> "new-message", chat |-> r.cid] >>

\* a second message, an offer, has been sent by bob to alice
C22_Witness ==
  /\ creq[1].op = "sendMessage" /\ creq[1].pc = "done" /\ creq[1].result = "ok"
  /\ creq[1].user = "bob" /\ creq[1].type = "offer"
  /\ Len(before.chats[1].messages) = 1
  /\ unreadGet(chats[1].unreadCount, "alice") = 2

\* the caller of r is no participant of chat c, or a participant has blocked it
Refused(r, c) ==
  LET chat == chats[c]
      members == {chat.participants[i] : i \in 1 .. Len(chat.participants)}
  IN  \/ r.user \notin members
      \/ \E i \in 1 .. Len(chat.blockedBy) : chat.blockedBy[i] \in members

\* a request that failed left the chats as they were and published nothing
NothingDone(r) == chats = before.chats /\ r.events = <<>>

C24_OffersAndImagesComplete ==
  /\ \A p \in Procs :
       LET r == creq[p] IN
       (/\ r.op = "sendMessage" /\ r.pc = "done"
        /\ \/ r.type = "offer" /\ r.amount = NoAmount
           \/ r.type = "image" /\ r.image = NoImage)
       => r.result # "ok" /\ NothingDone(r)
  /\ \A c \in 1 .. Len(chats) : \A i \in 1 .. Len(chats[c].messages) :
       LET m == chats[c].messages[i]
       IN  /\ m.type = "offer" => m.amount # NoAmount
           /\ m.type = "image" => m.image # NoImage

\* lastMessage has the sender and the preview of the last message
MirrorsSenderAndContent(chat) ==
  LET last == chat.messages[Len(chat.messages)]
  IN  /\ chat.lastMessage.sender = last.sender
      /\ chat.lastMessage.content = Preview(last.content)

\* C25: in every chat that has messages, also while sendMessage calls
\* overlap, lastMessage has the sender of the last message, its content cut
\* to the preview length and its creation timestamp.
C25_LastMessageMirrors ==
  \A c \in 1 .. Len(chats) :
    chats[c].messages # <<>> =>
      /\ MirrorsSenderAndContent(chats[c])
      /\ chats[c].lastMessage.createdAt = chats[c].messages[Len(chats[c].messages)].createdAt

\* a call of markAsRead by its caller that no other request overlaps: no other
\* request is in service and the stored chat is the one the call loaded
ReadsAlone(p) ==
  /\ creq[p].pc = "save" /\ creq[p].op \in {"markChatAsRead", "getChatById"}
  /\ creq'[p].pc = "respond"
  /\ \A q \in Procs \ {p} : creq[q].pc = "idle"
  /\ creq[p].doc[1] = chats[creq[p].cid]

\* C26: when markAsRead by participant U has saved, whatever the chat was
\* before, every message of the other participant is read, U's unread counter
\* is 0, and U's own messages and the other participant's counter are as
\* they were.
C26_ReadMarksAllAndZeroes ==
  [][\A p \in Procs :
       ReadsAlone(p) =>
         LET u == creq[p].user
             old == chats[creq[p].cid]
             new == chats'[creq[p].cid]
             other == otherParticipant(old, u)
         IN  /\ Len(new.messages) = Len(old.messages)
             /\ \A i \in 1 .. Len(old.messages) :
                  IF old.messages[i].sender = u THEN new.messages[i] = old.messages[i]
                                                ELSE new.messages[i].isRead
             /\ unreadGet(new.unreadCount, u) = 0
             /\ unreadGet(new.unreadCount, other) = unreadGet(old.unreadCount, other)]_vars
\* what a markAsRead of userId leaves: nothing unread for userId, counter 0
AllRead(chat, userId) ==
  UnreadFor(chat, userId) = {} /\ unreadGet(chat.unreadCount, userId) = 0

SentIsStored ==
  \A p \in Procs :
    (creq[p].op = "sendMessage" /\ creq[p].pc \in {"unread", "respond", "done"}
     /\ creq[p].result \in {"none", "ok"})
    => \E i \in 1 .. Len(chats[creq[p].cid].messages) :
         /\ chats[creq[p].cid].messages[i].sender = creq[p].user
         /\ chats[creq[p].cid].messages[i].content = creq[p].content

\* C28: once the overlapping sendMessage and markAsRead calls on a chat have
\* all completed, every message sent is stored and the unread counter of each
\* participant is the number of the other participant's messages that are
\* not read.
C28_NoLostUpdate ==
  /\ SentIsStored
  /\ (\A p \in Procs : creq[p].pc = "idle") =>
       \A c \in 1 .. Len(chats) : \A i \in 1 .. Len(chats[c].participants) :
         LET u == chats[c].participants[i]
         IN  unreadGet(chats[c].unreadCount, u) = Cardinality(UnreadFor(chats[c], u))

\* the respondToOffer requests that have answered, on a chat that exists
OfferAnswered(p) ==
  creq[p].op = "respondToOffer" /\ creq[p].pc = "done" /\ creq[p].cid \in 1 .. Len(chats)

\* the seller of the listing the chat of request r is about
ListingSeller(r) == listings[chats[r.cid].listing].seller

\* C29: a stored message starts with offer status pending, and an offer
\* status that is no longer pending never changes.  A respondToOffer that
\* succeeds is the listing seller's, found the offer pending, has set it to
\* the response given and has published one offer-response event to the
\* other participant; a respondToOffer of the seller on an offer already
\* responded to fails with AlreadyResponded and changes nothing.
C29_OfferAnsweredOnce ==
  /\ [][\A c \in 1 .. Len(chats') : \A i \in 1 .. Len(chats'[c].messages) :
          IF c \in 1 .. Len(chats) /\ i \in 1 .. Len(chats[c].messages)
            THEN chats[c].messages[i].offerStatus # "pending"
                   => chats'[c].messages[i].offerStatus = chats[c].messages[i].offerStatus
            ELSE chats'[c].messages[i].offerStatus = "pending"]_vars
  /\ [](\A p \in Procs : OfferAnswered(p) =>
          LET r == creq[p]
              old == ChatBefore(r)
              new == ChatNow(r)
          IN  /\ r.result = "ok" =>
                   /\ r.user = ListingSeller(r)
                   /\ r.status \in {"accepted", "rejected"}
                   /\ old.messages[r.mid].type = "offer"
                   /\ old.messages[r.mid].offerStatus = "pending"
                   /\ new.messages[r.mid].offerStatus = r.status
                   /\ r.events = << [to |-> otherParticipant(new, r.user),
                                      name |-> "offer-response", chat |-> r.cid] >>
              /\ (/\ r.user = ListingSeller(r)
                  /\ r.status \in {"accepted", "rejected"}
                  /\ r.mid \in 1 .. Len(old.messages)
                  /\ old.messages[r.mid].type = "offer"
                  /\ old.messages[r.mid].offerStatus # "pending")
                 => r.result = "AlreadyResponded" /\ NothingDone(r))

\* alice has been refused a rejection of the offer she had accepted
C29_Witness ==
  /\ OfferAnswered(1) /\ creq[1].result = "AlreadyResponded"
  /\ creq[1].user = "alice" /\ creq[1].status = "rejected"
  /\ chats[1].messages[creq[1].mid].sender = "bob"
  /\ chats[1].messages[creq[1].mid].offerStatus = "accepted"

\* C30 as stated: a respondToOffer whose caller is not the listing's seller
\* fails with Forbidden, one of the seller on a message that does not exist
\* fails with NotFound, one on a message that is no offer or with a response
\* other than accepted and rejected fails; none changes the chat or publishes
\* an event.
C30_BadResponseForbidden ==
  \A p \in Procs : OfferAnswered(p) =>
    LET r == creq[p]
        old == ChatBefore(r)
        missing == r.mid \notin 1 .. Len(old.messages)
    IN  /\ r.user # ListingSeller(r) => r.result = "Forbidden" /\ NothingDone(r)
        /\ (r.user = ListingSeller(r) /\ missing /\ r.status \in {"accepted", "rejected"})
             => r.result = "NotFound" /\ NothingDone(r)
        /\ (missing \/ r.status \notin {"accepted", "rejected"})
             => r.result # "ok" /\ NothingDone(r)
        /\ (~missing /\ old.messages[r.mid].type # "offer") => r.result # "ok" /\ NothingDone(r)

\* C30: a respondToOffer with a response other than accepted and rejected
\* fails with InvalidStatus, whoever calls; with a valid response, one whose
\* caller is not the listing's seller fails with Forbidden, one of the seller
\* on a message that does not exist with NotFound, and one of the seller on a
\* message that is no offer with NotOffer; none changes the chat or publishes
\* an event.
C30_BadResponseRefused ==
  \A p \in Procs : OfferAnswered(p) =>
    LET r == creq[p]
        old == ChatBefore(r)
        missing == r.mid \notin 1 .. Len(old.messages)
        valid == r.status \in {"accepted", "rejected"}
        expected ==
          IF ~valid THEN "InvalidStatus"
          ELSE IF r.user # ListingSeller(r) THEN "Forbidden"
          ELSE IF missing THEN "NotFound"
          ELSE "NotOffer"
    IN  (\/ ~valid \/ r.user # ListingSeller(r) \/ missing
         \/ old.messages[r.mid].type # "offer")
        => r.result = expected /\ NothingDone(r)

\* bob, the buyer, has been refused the acceptance of his own offer
C30_Witness ==
  /\ OfferAnswered(1) /\ creq[1].result = "Forbidden"
  /\ creq[1].user = "bob" /\ creq[1].status = "accepted"
  /\ creq[1].mid = 1 /\ Len(chats[1].messages) >= 1
  /\ chats[1].messages[1].type = "offer"
  /\ chats[1].messages[1].offerStatus = "pending"

\* C38: with chat requests served one at a time, whenever a request has
\* completed the unread counter of each participant of a chat is the number
\* of messages of the other participant that are not read (and so is not
\* negative).
C38_CountersMatchUnread ==
  (\A p \in Procs : creq[p].pc \in {"idle", "done"}) =>
    \A c \in 1 .. Len(chats) : \A i \in 1 .. Len(chats[c].participants) :
      LET u == chats[c].participants[i]
          count == unreadGet(chats[c].unreadCount, u)
      IN  /\ count >= 0
          /\ count = Cardinality({m \in 1 .. Len(chats[c].messages) :
                                    /\ chats[c].messages[m].sender # u
                                    /\ ~chats[c].messages[m].isRead})

\* alice has read bob's message and has one of her own unread by bob
C38_Witness ==
  /\ creq[1].op = "markChatAsRead" /\ creq[1].pc = "done" /\ creq[1].result = "ok"
  /\ creq[1].user = "alice"
  /\ Len(chats[1].messages) = 2
  /\ chats[1].messages[1].sender = "bob" /\ chats[1].messages[1].isRead
  /\ chats[1].messages[2].sender = "alice"
  /\ unreadGet(chats[1].unreadCount, "bob") = 1
  /\ chats # before.chats

\* C39: every cancelled order has a cancellation record with cancelledBy and
\* reason, and every disputed order a dispute record with initiatedBy, reason
\* and status open.
C39_RecordsPopulated ==
  \A o \in 1 .. Len(orders) :
    /\ orders[o].status = "cancelled" =>
         /\ orders[o].cancellation.cancelledBy # NoUser
         /\ orders[o].cancellation.reason # ""
    /\ orders[o].status = "disputed" =>
         /\ orders[o].dispute.initiatedBy # NoUser
         /\ orders[o].dispute.reason # ""
         /\ orders[o].dispute.status = "open"

\* C40: a respondToOffer that succeeded answered an offer message whose
\* sender is not the listing's seller.
C40_SellerAnswersBuyersOffer ==
  \A p \in Procs :
    (OfferAnswered(p) /\ creq[p].result = "ok") =>
      ChatBefore(creq[p]).messages[creq[p].mid].sender # ListingSeller(creq[p])

\* C34: an updateOrderStatus that succeeded has published exactly one event,
\* order-status-update, to the seller when the buyer acted and to the buyer
\* when the seller acted, and in no case to the acting user.
C34_StatusEventToCounterparty ==
  \A p \in Procs :
    (Responded(p, "updateOrderStatus") /\ req[p].result = "ok") =>
      LET order == Before(p)
          sent == req[p].events
      IN  /\ Len(sent) = 1
          /\ sent[1].name = "order-status-update"
          /\ sent[1].order = req[p].oid
          /\ req[p].user = order.buyer => sent[1].to = order.seller
          /\ req[p].user = order.seller => sent[1].to = order.buyer
          /\ sent[1].to # req[p].user

\* alice, the seller, has confirmed bob's order and bob has been notified
C34_Witness ==
  /\ Responded(1, "updateOrderStatus") /\ req[1].result = "ok"
  /\ req[1].user = "alice" /\ req[1].target = "confirmed"
  /\ Before(1).buyer = "bob" /\ Before(1).seller = "alice"
  /\ req[1].events = << [to |-> "bob", name |-> "order-status-update", order |-> req[1].oid] >>

\* C31: a respondToOffer that has answered, whatever its response and its
\* outcome, has left the orders and the listings as they were when it
\* arrived: no order created or changed, no listing status changed.
C31_ResponseLeavesOrdersAndListings ==
  \A p \in Procs :
    (creq[p].op = "respondToOffer" /\ creq[p].pc = "done") =>
      /\ orders = before.orders
      /\ listings = before.listings
      /\ \A l \in DOMAIN listings : listings[l].status = before.listings[l].status

\* alice has accepted bob's offer while his order of the listing is pending
C31_Witness ==
  /\ creq[1].op = "respondToOffer" /\ creq[1].pc = "done" /\ creq[1].result = "ok"
  /\ creq[1].status = "accepted" /\ creq[1].user = "alice"
  /\ Len(orders) = 1 /\ orders[1].status = "pending"
  /\ listings["L1"].status = "reserved"

\* the content of a message: everything but its read flag, read timestamp
\* and offer status
Content(m) ==
  [sender |-> m.sender, content |-> m.content, type |-> m.type, image |-> m.image,
   amount |-> m.amount, createdAt |-> m.createdAt]

\* a request of one of the operations ops is at its save
Saving(ops) == \E p \in Procs : creq[p].pc = "save" /\ creq[p].op \in ops

\* C32: in every step each stored message stays at its position with its
\* sender, content, type, image payload and offer amount, and no message
\* goes away; its read flag and read timestamp change only in a markAsRead
\* (of markChatAsRead or getChatById) and its offer status only in a
\* respondToOffer, on an offer.
C32_MessagesImmutable ==
  [][\A c \in 1 .. Len(chats) :
       /\ c \in 1 .. Len(chats')
       /\ Len(chats'[c].messages) >= Len(chats[c].messages)
       /\ \A i \in 1 .. Len(chats[c].messages) :
            LET m == chats[c].messages[i]
                n == chats'[c].messages[i]
            IN  /\ Content(n) = Content(m)
                /\ (n.isRead # m.isRead \/ n.readAt # m.readAt)
                     => Saving({"markChatAsRead", "getChatById"})
                /\ n.offerStatus # m.offerStatus
                     => Saving({"respondToOffer"}) /\ m.type = "offer"]_vars

\* two messages are stored, the first one read and its offer accepted, and
\* the chat has been deleted by a participant
C32_Witness ==
  /\ Len(chats) = 1 /\ Len(chats[1].messages) = 2
  /\ chats[1].messages[1].isRead
  /\ chats[1].messages[1].offerStatus = "accepted"
  /\ ~chats[1].isActive

\* the users in blockedBy
Blockers(chat) == {chat.blockedBy[i] : i \in 1 .. Len(chat.blockedBy)}

\* toggleBlockChat on a chat as stored
Toggle(chat, userId) ==
  IF isBlockedBy(chat, userId) THEN unblock(chat, chat, userId) ELSE block(chat, userId)

\* C33: a toggleBlockChat of participant P that succeeded has added P to
\* blockedBy if P was absent and removed P if present, has left the other
\* users of blockedBy, the messages, lastMessage and the unread counters as
\* they were and has published no event; two toggles by P in a row give
\* back the blockedBy they started from.
C33_ToggleBlock ==
  /\ \A p \in Procs :
       (creq[p].op = "toggleBlockChat" /\ creq[p].pc = "done" /\ creq[p].result = "ok") =>
         LET r == creq[p]
             old == ChatBefore(r)
             new == ChatNow(r)
         IN  /\ Blockers(new) = IF r.user \in Blockers(old) THEN Blockers(old) \ {r.user}
                                                             ELSE Blockers(old) \cup {r.user}
             /\ new.messages = old.messages
             /\ new.lastMessage = old.lastMessage
             /\ new.unreadCount = old.unreadCount
             /\ new.participants = old.participants
             /\ r.events = <<>>
  /\ \A c \in 1 .. Len(chats) : \A i \in 1 .. Len(chats[c].participants) :
       LET u == chats[c].participants[i]
       IN  Blockers(Toggle(Toggle(chats[c], u), u)) = Blockers(chats[c])

\* bob has unblocked the chat that alice still blocks
C33_Witness ==
  /\ creq[1].op = "toggleBlockChat" /\ creq[1].pc = "done" /\ creq[1].result = "ok"
  /\ creq[1].user = "bob"
  /\ Blockers(before.chats[1]) = {"alice", "bob"}
  /\ Blockers(chats[1]) = {"alice"}
  /\ Len(chats[1].messages) >= 1

\* the statuses of an order that is still under way
NonTerminal == {"pending", "confirmed", "meetup-scheduled", "in-progress", "disputed"}

\* the orders of listing l whose status is one of sts
OrdersOf(l, sts) == {o \in 1 .. Len(orders) : orders[o].listing = l /\ orders[o].status \in sts}

\* C36: with handlers run one at a time and the listing status written by
\* the order handlers only, no listing has two orders in a non-terminal
\* status.
C36_OneOpenOrderPerListing ==
  \A l \in ListingIds : Cardinality(OrdersOf(l, NonTerminal)) <= 1

\* C37: of the createOrder calls of different buyers on one active listing,
\* also overlapping ones, at most one succeeds, so that no listing has two
\* pending orders.
C37_OneOrderPerActiveListing ==
  /\ \A l \in ListingIds : Cardinality(OrdersOf(l, {"pending"})) <= 1
  /\ \A p, q \in Procs :
       (/\ p # q
        /\ req[p].op = "createOrder" /\ req[q].op = "createOrder"
        /\ req[p].lid = req[q].lid /\ req[p].user # req[q].user)
       => ~(req[p].result = "ok" /\ req[q].result = "ok")

\* C35: a connection receives the events of user U only after it has been
\* authenticated as U: every event a connection has received is addressed to
\* the user at the other end of the connection.
C35_EventsReachTheirUserOnly ==
  \A c \in Conns : \A e \in sockets[c].received : e.to = sockets[c].client

====
